---------------------------- MODULE Spec2Model ----------------------------
(***************************************************************************)
(* Model of the jaildata collection pipeline:                              *)
(*   - StorageClient (keyed store over one DynamoDB table),                *)
(*   - DataCollectionService.collectAllInmates (session + paging loop),    *)
(*   - processBatch / processSingleBatch (queue consumer).                 *)
(*                                                                         *)
(* Strings are sequences of one-character strings, so that key building,   *)
(* date parsing and cookie parsing are computed character by character.    *)
(* Calls to AlertService only report; they change none of the state below  *)
(* and are not modelled.                                                   *)
(***************************************************************************)
EXTENDS Integers, Sequences, FiniteSets, TLC

VARIABLES
    now,        \* the wall clock: [ms |-> instant, day |-> calendar day index]
    store,      \* the DynamoDB table: a set of items
    written,    \* history: the items put into the table, in the order applied
    calls,      \* StorageClient.batchSaveInmates calls in progress or settled
    ops,        \* number of StorageClient write calls begun so far
    saveHist,   \* history of saveInmate: the last call and a repeated call
    run,        \* one DataCollectionService.collectAllInmates run
    source,     \* the upstream API of the run: mode, records held, Total it reports
    cookieJar,  \* CookieJar.cookies of the run: sequence of <<name, value>>
    queue,      \* the SQS queue: sequence of message bodies, oldest first
    http,       \* history: requests the run issued, in order
    inv,        \* one processBatch invocation: its event and per-record progress
    reply,      \* the last read of StorageClient: the call and what it returned
    mapping,    \* FacilityMapping: FACILITY_MAPPING, API_ID_TO_NAME, loaded
    handler,    \* the collect / collectScheduled invocation in progress
    services,   \* the DataCollectionService objects of the process, in order
    handled,    \* history: what the handler invocations returned or threw
    loaders     \* the loadApiIds calls of the process and where each stands

storeVars   == <<now, store, written, calls, ops, saveHist>>
collectVars == <<run, source, cookieJar, queue, http>>
procVars    == <<mapping, handler, services, handled, loaders>>
vars        == <<now, store, written, calls, ops, saveHist, run, source, cookieJar,
                 queue, http, inv, reply, procVars>>

----------------------------------------------------------------------------
(* Bounds of the model *)

MaxClock == 2
MaxWrites == 2

----------------------------------------------------------------------------
(* JavaScript values *)

\* undefined: a property that is absent.  No string has a character of more
\* than one letter, so this value is none of the strings.
Undefined == <<"undefined">>

Digits == <<"0", "1", "2", "3", "4", "5", "6", "7", "8", "9">>
Upper == <<"A", "B", "C", "D", "E", "F", "G", "H", "I", "J", "K", "L", "M",
           "N", "O", "P", "Q", "R", "S", "T", "U", "V", "W", "X", "Y", "Z">>
Lower == <<"a", "b", "c", "d", "e", "f", "g", "h", "i", "j", "k", "l", "m",
           "n", "o", "p", "q", "r", "s", "t", "u", "v", "w", "x", "y", "z">>

Range(s) == {s[i] : i \in DOMAIN s}
IsDigit(c) == c \in Range(Digits)
DigitVal(c) == (CHOOSE i \in DOMAIN Digits : Digits[i] = c) - 1
Min(a, b) == IF a < b THEN a ELSE b

\* x || "" for a string property
OrEmpty(x) == IF x = Undefined THEN <<>> ELSE x

\* String.prototype.toLowerCase, one character
LowerChar(c) ==
    IF c \in Range(Upper)
    THEN Lower[CHOOSE i \in DOMAIN Upper : Upper[i] = c]
    ELSE c

\* String.prototype.toUpperCase, one character
UpperChar(c) ==
    IF c \in Range(Lower)
    THEN Upper[CHOOSE i \in DOMAIN Lower : Lower[i] = c]
    ELSE c

ToLowerCase(s) == [i \in DOMAIN s |-> LowerChar(s[i])]
ToUpperCase(s) == [i \in DOMAIN s |-> UpperChar(s[i])]

\* n.toString() for n >= 0
RECURSIVE NumToString(_)
NumToString(n) ==
    IF n < 10 THEN <<Digits[n + 1]>>
    ELSE NumToString(n \div 10) \o <<Digits[(n % 10) + 1]>>

PadStart2Never(s) == s

\* s.padStart(2, "0")
PadStart2(s) == IF Len(s) < 2 THEN <<"0">> \o s ELSE s

\* s.slice(0, k) and s.slice(k)
FirstN(s, k) == SubSeq(s, 1, Min(k, Len(s)))
DropN(s, k) == SubSeq(s, k + 1, Len(s))

\* the number written by a string of digits
RECURSIVE DigitsToNum(_)
DigitsToNum(s) ==
    IF s = <<>> THEN 0
    ELSE 10 * DigitsToNum(SubSeq(s, 1, Len(s) - 1)) + DigitVal(s[Len(s)])

\* the longest prefix of s made of digits
RECURSIVE DigitPrefix(_)
DigitPrefix(s) ==
    IF s # <<>> /\ IsDigit(Head(s))
    THEN <<Head(s)>> \o DigitPrefix(Tail(s))
    ELSE <<>>

----------------------------------------------------------------------------
(* The clock *)

\* The calendar date of day index d (day 0 is 2025-09-29).
UtcDate(d) ==
    IF 29 + d <= 30
    THEN [y |-> 2025, m |-> 9, d |-> 29 + d]
    ELSE [y |-> 2025, m |-> 10, d |-> d - 1]

\* now.toISOString().split("T")[0]
IsoDate(t) ==
    LET c == UtcDate(t.day)
    IN  NumToString(c.y) \o <<"-">> \o PadStart2(NumToString(c.m))
            \o <<"-">> \o PadStart2(NumToString(c.d))

\* `${now.getMonth() + 1}/${now.getDate()}/${now.getFullYear()}`
\* (the Lambda runtime's time zone is UTC)
LocalMDY(t) ==
    LET c == UtcDate(t.day)
    IN  NumToString(c.m) \o <<"/">> \o NumToString(c.d) \o <<"/">>
            \o NumToString(c.y)

----------------------------------------------------------------------------
(* StorageClient: pure helpers *)

chunkSize == 25

DYNAMO_ATTRIBUTES == {"PK", "SK", "GSI1PK", "GSI1SK"}

cleanNameForKeyKeepingCase(name) ==
    SelectSeq(OrEmpty(name), LAMBDA c : c \in Range(Lower) \/ IsDigit(c))

\* (name || "").toLowerCase().replace(/[^a-z0-9]/g, "")
cleanNameForKey(name) ==
    SelectSeq(ToLowerCase(OrEmpty(name)),
              LAMBDA c : c \in Range(Lower) \/ IsDigit(c))

KeyInmateSkFromClock(facilityId, lastName, firstName, middleName, recordDate) ==
    [PK |-> <<"I", "N", "M", "A", "T", "E", "#">> \o facilityId \o <<"#">>
                \o cleanNameForKey(lastName) \o <<"#">>
                \o cleanNameForKey(firstName) \o <<"#">>
                \o cleanNameForKey(middleName),
     SK |-> recordDate \o <<"T">> \o NumToString(now.ms)]

KeyInmateWithoutMiddle(facilityId, lastName, firstName, middleName, recordDate) ==
    [PK |-> <<"I", "N", "M", "A", "T", "E", "#">> \o facilityId \o <<"#">>
                \o cleanNameForKey(lastName) \o <<"#">>
                \o cleanNameForKey(firstName),
     SK |-> recordDate]

\* Key.Inmate
KeyInmate(facilityId, lastName, firstName, middleName, recordDate) ==
    [PK |-> <<"I", "N", "M", "A", "T", "E", "#">> \o facilityId \o <<"#">>
                \o cleanNameForKey(lastName) \o <<"#">>
                \o cleanNameForKey(firstName) \o <<"#">>
                \o cleanNameForKey(middleName),
     SK |-> recordDate]

getFacilityGSIKeys(facilityId, recordDate) ==
    [GSI1PK |-> <<"F", "A", "C", "I", "L", "I", "T", "Y", "#">> \o facilityId,
     GSI1SK |-> recordDate]

\* arrestDate.match(/^(\d{1,2})\/(\d{1,2})\/(\d{4})/): the three groups, or
\* <<>> when the string does not match
MatchMDY(s) ==
    LET mm == DigitPrefix(s)
        r1 == DropN(s, Len(mm))
        dd == DigitPrefix(DropN(r1, 1))
        r2 == DropN(r1, 1 + Len(dd))
        yy == DigitPrefix(DropN(r2, 1))
    IN  IF /\ Len(mm) \in 1..2 /\ r1 # <<>> /\ Head(r1) = "/"
           /\ Len(dd) \in 1..2 /\ r2 # <<>> /\ Head(r2) = "/"
           /\ Len(yy) >= 4
        THEN <<mm, dd, FirstN(yy, 4)>>
        ELSE <<>>

\* new Date(s) followed by toISOString().split("T")[0], for the strings that
\* do not match M/D/YYYY: an ISO date YYYY-MM-DD, alone or followed by a UTC
\* time ("T...Z"), is that date; any other string is an Invalid Date (<<>>).
JsDateIsoDay(s) ==
    LET y == FirstN(s, 4)
        m == SubSeq(s, 6, Min(7, Len(s)))
        d == SubSeq(s, 9, Min(10, Len(s)))
        rest == DropN(s, 10)
    IN  IF /\ Len(s) >= 10
           /\ \A c \in Range(y) \cup Range(m) \cup Range(d) : IsDigit(c)
           /\ s[5] = "-" /\ s[8] = "-"
           /\ DigitsToNum(m) \in 1..12 /\ DigitsToNum(d) \in 1..31
           /\ (rest = <<>> \/ (Head(rest) = "T" /\ rest[Len(rest)] = "Z"))
        THEN FirstN(s, 10)
        ELSE <<>>

parseArrestDateFromClock(arrestDate, t) == IsoDate(t)

\* parseArrestDate at clock value t
parseArrestDate(arrestDate, t) ==
    IF arrestDate = Undefined \/ arrestDate = <<>>
    THEN IsoDate(t)
    ELSE LET dateMatch == MatchMDY(arrestDate)
             parsed == JsDateIsoDay(arrestDate)
         IN  IF dateMatch # <<>>
             THEN dateMatch[3] \o <<"-">> \o PadStart2(dateMatch[1])
                      \o <<"-">> \o PadStart2(dateMatch[2])
             ELSE IF parsed # <<>>
             THEN parsed
             ELSE LocalMDY(t)

\* typeof x === "string" ? parseFloat(x) || 0 : x || 0, for amounts that are
\* absent, whole numbers, or strings (parseFloat reads the leading digits)
TotalBondAmount(x) ==
    CASE x.type = "string" ->
            IF DigitPrefix(x.s) = <<>> THEN 0 ELSE DigitsToNum(DigitPrefix(x.s))
      [] x.type = "number" -> x.n
      [] OTHER -> 0

\* the dynamoRecord built for one inmate at clock value t
\* (saveInmate lines 196-225, batchSaveInmates lines 405-435)
DynamoRecord(facilityId, inmate, t) ==
    LET firstName == OrEmpty(inmate.FirstName)
        lastName == OrEmpty(inmate.LastName)
        middleName == OrEmpty(inmate.MiddleName)
        recordDate == parseArrestDate(inmate.ArrestDate, t)
        inmateKey == KeyInmate(facilityId, lastName, firstName, middleName,
                               recordDate)
        facilityGSI == getFacilityGSIKeys(facilityId, recordDate)
    IN  [PK |-> inmateKey.PK, SK |-> inmateKey.SK,
         GSI1PK |-> facilityGSI.GSI1PK, GSI1SK |-> facilityGSI.GSI1SK,
         totalBondAmount |-> TotalBondAmount(inmate.TotalBondAmount),
         recordDate |-> recordDate,
         lastUpdated |-> t.ms,
         rawData |-> inmate]

DynamoPutKeepingOld(table, item) == table \cup {item}

DynamoPutMixingFields(table, item) ==
    LET old == {i \in table : i.PK = item.PK /\ i.SK = item.SK}
    IN  (table \ old) \cup
            {IF old = {} THEN item
             ELSE [item EXCEPT !.totalBondAmount =
                                  (CHOOSE i \in old : TRUE).totalBondAmount]}

\* DynamoDB PutItem: the item replaces the item of the same primary key
DynamoPut(table, item) ==
    {i \in table : ~(i.PK = item.PK /\ i.SK = item.SK)} \cup {item}

\* history: the item is the latest write
NoteWrite(h, item) == Append(h, item)

----------------------------------------------------------------------------
(* Inputs: facility names and upstream records *)

None == [none |-> TRUE]

Wake == <<"w", "a", "k", "e">>
Buncombe == <<"b", "u", "n", "c", "o", "m", "b", "e">>
FacilityIds == {Wake, Buncombe}

NoAmount == [type |-> "undefined"]
Amount(n) == [type |-> "number", n |-> n]
AmountStr(s) == [type |-> "string", s |-> s]

Inmate(last, first, middle, bond, arrest, extra) ==
    [LastName |-> last, FirstName |-> first, MiddleName |-> middle,
     TotalBondAmount |-> bond, ArrestDate |-> arrest, Extra |-> extra]

\* "9/15/2025 10:30:00 AM"
ArrestMDYTime ==
    <<"9", "/", "1", "5", "/", "2", "0", "2", "5", " ", "1", "0", ":", "3",
      "0", ":", "0", "0", " ", "A", "M">>
\* "2025-09-15"
ArrestIso == <<"2", "0", "2", "5", "-", "0", "9", "-", "1", "5">>
\* "not a date"
ArrestBad == <<"n", "o", "t", " ", "a", " ", "d", "a", "t", "e">>

Doe1 == Inmate(<<"D", "o", "e">>, <<"J", "o", "h", "n">>, Undefined,
               Amount(500), ArrestMDYTime, 1)
\* the same person and day as Doe1, collected again with other values
Doe2 == Inmate(<<"D", "o", "e">>, <<"J", "o", "h", "n">>, Undefined,
               AmountStr(<<"7", "5", "0">>), ArrestMDYTime, 2)
OBrien1 == Inmate(<<"O", "'", "B", "r", "i", "e", "n">>, <<"P", "a", "t">>,
                  <<"J", ".">>, NoAmount, ArrestIso, 3)
\* no ArrestDate
RoeNoDate == Inmate(<<"R", "o", "e">>, Undefined, Undefined,
                    AmountStr(<<"n", "/", "a">>), Undefined, 4)
\* an ArrestDate no parser reads
RoeBadDate == Inmate(<<"R", "o", "e">>, <<"A", "l">>, <<>>, Amount(0), ArrestBad, 5)

SampleInmates == {Doe1, Doe2, OBrien1, RoeNoDate, RoeBadDate}

\* record i of a long roster: one person, arrest dates 9/1/2025, 9/2/2025, ...
RosterInmate(i) ==
    Inmate(<<"D", "o", "e">>, <<"J", "a", "n", "e">>, Undefined, Amount(i),
           <<"9", "/">> \o NumToString(i) \o <<"/", "2", "0", "2", "5">>, i)
Roster(n) == [i \in 1..n |-> RosterInmate(i)]

\* the arguments of the saveInmate calls: <<facilityId, inmate>>
SaveInputs ==
    {<<Wake, r>> : r \in {Doe1, Doe2, RoeNoDate, RoeBadDate}}
        \cup {<<Buncombe, Doe1>>}

\* the arguments of the batchSaveInmates calls: <<facilityId, inmates>>
BatchInputs ==
    {<<Wake, <<>>>>, <<Wake, <<Doe2>>>>, <<Wake, <<OBrien1, RoeNoDate>>>>,
     <<Buncombe, <<Doe1, Doe2>>>>}

----------------------------------------------------------------------------
(* StorageClient: write operations *)

MaxUnits == 2
CallIds == 0..MaxUnits   \* 0: a direct caller; k > 0: record k of an invocation

IdleCall ==
    [status |-> "idle", facilityId |-> <<>>, inmates |-> <<>>, i |-> 0,
     pending |-> <<>>, sent |-> <<>>,
     left |-> {}]   \* history: positions returned in UnprocessedItems

Tick ==
    /\ now.ms < MaxClock
    /\ \E midnight \in BOOLEAN :
        now' = [ms |-> now.ms + 1,
                day |-> IF midnight THEN now.day + 1 ELSE now.day]
    /\ UNCHANGED <<store, written, calls, ops, saveHist, collectVars, inv, reply, procVars>>

\* StorageClient.saveInmate(facilityId, inmate): one PutCommand, which is
\* applied (ok) or fails, and then the call rejects with the table untouched.
SaveInmate(facilityId, inmate) ==
    /\ ops < MaxWrites
    /\ ops' = ops + 1
    /\ \E ok \in BOOLEAN :
        LET item == DynamoRecord(facilityId, inmate, now)
            same == /\ saveHist.last # None
                    /\ saveHist.last.facilityId = facilityId
                    /\ saveHist.last.inmate = inmate
        IN  IF ok
            THEN /\ store' = DynamoPut(store, item)
                 /\ written' = NoteWrite(written, item)
                 /\ saveHist' =
                      [last |-> [facilityId |-> facilityId, inmate |-> inmate,
                                 after |-> store', day |-> now.day],
                       twice |-> IF same
                                 THEN [first |-> saveHist.last.after,
                                       second |-> store',
                                       item |-> item, at |-> now.ms,
                                       sameDay |-> saveHist.last.day = now.day]
                                 ELSE None]
            ELSE /\ UNCHANGED <<store, written>>
                 /\ saveHist' = [last |-> None, twice |-> None]
    /\ UNCHANGED <<now, calls, collectVars, inv, reply, procVars>>

\* batchSaveInmates(facilityId, inmates) is entered by call c: the loop
\* condition i < inmates.length is false at once for an empty array.
EnterBatchSave(c, facilityId, inmates) ==
    [IdleCall EXCEPT !.status = IF Len(inmates) = 0 THEN "fulfilled" ELSE "running",
                     !.facilityId = facilityId, !.inmates = inmates]

BatchSaveInmates(c, facilityId, inmates) ==
    /\ ops < MaxWrites
    /\ calls[c].status \in {"idle", "fulfilled", "rejected"}
    /\ ops' = ops + 1
    /\ calls' = [calls EXCEPT ![c] = EnterBatchSave(c, facilityId, inmates)]
    /\ saveHist' = [last |-> None, twice |-> None]
    /\ UNCHANGED <<now, store, written, collectVars, inv, reply, procVars>>

ChunkFromPrevious(inmates, i) ==
    SubSeq(inmates, IF i = 0 THEN 1 ELSE i, Min(i + chunkSize, Len(inmates)))

\* inmates.slice(i, i + chunkSize)
Chunk(inmates, i) == SubSeq(inmates, i + 1, Min(i + chunkSize, Len(inmates)))

\* chunk.map(...): the put requests of one chunk, built at clock value t
PutRequests(facilityId, chunk, t) ==
    [k \in DOMAIN chunk |-> DynamoRecord(facilityId, chunk[k], t)]

\* BatchWriteItem refuses a request that names one primary key twice
HasDuplicateKeys(items) ==
    \E a, b \in DOMAIN items :
        a < b /\ items[a].PK = items[b].PK /\ items[a].SK = items[b].SK

\* i += chunkSize and the loop test, after the chunk's write has returned
AfterChunk(call) ==
    LET next == call.i + chunkSize
    IN  [call EXCEPT !.i = next, !.pending = <<>>,
                     !.status = IF next < Len(call.inmates)
                                THEN "running" ELSE "fulfilled"]

RejectedThenResumes(call, sent) == AfterChunk([call EXCEPT !.sent = sent])

\* dynamoDb.send rejects: the catch of batchSaveInmates logs and rethrows
\* (lines 452-455), the loop is left
Rejected(call, sent) == [call EXCEPT !.status = "rejected", !.sent = sent]

\* One pass of the loop up to dynamoDb.send(new BatchWriteCommand(...)).  The
\* request is refused (duplicate keys), fails, or is accepted; an accepted
\* request may leave an item unprocessed (here none, its first or its last),
\* which the response reports in UnprocessedItems and the code does not read.
BatchWriteSend(c) ==
    /\ calls[c].status = "running"
    /\ LET call == calls[c]
           chunk == Chunk(call.inmates, call.i)
           putRequests == PutRequests(call.facilityId, chunk, now)
           sent == Append(call.sent, <<call.i + 1, call.i + Len(chunk)>>)
       IN  \E outcome \in {"accepted", "failed"} :
           \E unprocessed \in {{}, {1}, {Len(putRequests)}} :
             /\ outcome = "failed" => unprocessed = {}
             /\ calls' =
                  [calls EXCEPT ![c] =
                     IF outcome = "failed" \/ HasDuplicateKeys(putRequests)
                     THEN Rejected(call, sent)
                     ELSE LET todo == SelectSeq(
                                  [k \in DOMAIN putRequests |->
                                      [k |-> k, item |-> putRequests[k]]],
                                  LAMBDA e : e.k \notin unprocessed)
                              items == [k \in DOMAIN todo |-> todo[k].item]
                              left == call.left \cup
                                          {call.i + k : k \in unprocessed}
                          IN  IF items = <<>>
                              THEN AfterChunk([call EXCEPT !.sent = sent,
                                                           !.left = left])
                              ELSE [call EXCEPT !.status = "writing",
                                                !.pending = items,
                                                !.sent = sent,
                                                !.left = left]]
    /\ saveHist' = [last |-> None, twice |-> None]
    /\ UNCHANGED <<now, store, written, ops, collectVars, inv, reply, procVars>>

\* DynamoDB applies the next put of an accepted BatchWriteItem; with the last
\* one the request returns and the loop goes on.
BatchWritePut(c) ==
    /\ calls[c].status = "writing"
    /\ LET call == calls[c]
           item == Head(call.pending)
       IN  /\ store' = DynamoPut(store, item)
           /\ written' = NoteWrite(written, item)
           /\ calls' = [calls EXCEPT ![c] =
                          IF Tail(call.pending) = <<>>
                          THEN AfterChunk(call)
                          ELSE [call EXCEPT !.pending = Tail(call.pending)]]
    /\ saveHist' = [last |-> None, twice |-> None]
    /\ UNCHANGED <<now, ops, collectVars, inv, reply, procVars>>

StoreInit ==
    /\ now = [ms |-> 0, day |-> 0]
    /\ store = {}
    /\ written = <<>>
    /\ calls = [c \in CallIds |-> IdleCall]
    /\ ops = 0
    /\ saveHist = [last |-> None, twice |-> None]

\* FacilityMapping as the module is loaded: every facility of
\* BASE_FACILITY_MAPPING with apiId 0, API_ID_TO_NAME empty, nothing loaded,
\* and no parameter-store read made
JsNumber(n) == [type |-> "number", n |-> n]
JsNaN == [type |-> "NaN", n |-> 0]
JsUndefined == [type |-> "undefined", n |-> 0]

BASE_FACILITY_MAPPING == <<Buncombe>>

MappingAtLoad ==
    [loaded |-> FALSE,
     apiId |-> [name \in Range(BASE_FACILITY_MAPPING) |-> JsNumber(0)],
     API_ID_TO_NAME |-> {},
     reads |-> 0]

ProcIdle ==
    /\ mapping = MappingAtLoad
    /\ handler = None
    /\ services = <<>>
    /\ handled = <<>>
    /\ loaders = <<>>

CollectIdle ==
    /\ run = None
    /\ source = None
    /\ cookieJar = <<>>
    /\ queue = <<>>
    /\ http = <<>>

IngestIdle == inv = None

ReadIdle == reply = None

\* Direct use of StorageClient
InitStore == StoreInit /\ CollectIdle /\ IngestIdle /\ ReadIdle /\ ProcIdle

NextStore ==
    \/ Tick
    \/ \E a \in SaveInputs : SaveInmate(a[1], a[2])
    \/ \E a \in BatchInputs : BatchSaveInmates(0, a[1], a[2])
    \/ BatchWriteSend(0)
    \/ BatchWritePut(0)

SpecStore == InitStore /\ [][NextStore]_vars

----------------------------------------------------------------------------
(* Claims about the keyed store (SpecStore) *)

\* the writes that no later write to the same (identityKey, recordDate)
\* pair has followed
LastWritePerPair(w) ==
    {w[k] : k \in {k \in DOMAIN w :
                     \A l \in DOMAIN w :
                        l > k => ~(w[l].PK = w[k].PK
                                   /\ w[l].recordDate = w[k].recordDate)}}

\* C1: after any sequence of saveInmate and batchSaveInmates calls the table
\* holds at most one item per (identityKey, recordDate) pair, and it is the
\* item of the most recent write to that pair: the table is exactly the set
\* of last writes, so an earlier write to a pair leaves no trace.
C1_OneEntryPerPairLastWriteWins ==
    /\ \A i, j \in store :
          (i.PK = j.PK /\ i.recordDate = j.recordDate) => i = j
    /\ store = LastWritePerPair(written)

\* C1 witness: a pair was written twice with different records, by
\* saveInmate and by batchSaveInmates, and the table holds the later one.
C1_Witness ==
    /\ Len(written) >= 2
    /\ \E k, l \in DOMAIN written :
          /\ k < l
          /\ written[k].PK = written[l].PK
          /\ written[k].recordDate = written[l].recordDate
          /\ written[k].rawData # written[l].rawData
          /\ written[l] \in store
          /\ written[k] \notin store
    /\ calls[0].status = "fulfilled"

\* the record date of this raw ArrestDate does not depend on the clock
DateFromRecord(arrestDate) ==
    /\ arrestDate # Undefined
    /\ arrestDate # <<>>
    /\ (MatchMDY(arrestDate) # <<>> \/ JsDateIsoDay(arrestDate) # <<>>)

\* the table after the second of two identical calls is the table after the
\* first, but for lastUpdated of the one item the calls wrote: the second
\* call adds no entry
SecondCallOnlyRefreshes(t) ==
    /\ \E e \in t.first :
          /\ e.PK = t.item.PK /\ e.SK = t.item.SK
          /\ t.second = (t.first \ {e}) \cup {[e EXCEPT !.lastUpdated = t.at]}
    /\ Cardinality(t.second) = Cardinality(t.first)
    /\ Cardinality({e \in t.second : e.PK = t.item.PK /\ e.SK = t.item.SK}) = 1

\* C2 as stated: saveInmate called twice with the same facilityId and an
\* identical raw record leaves one stored entry, the state after one call
\* but for lastUpdated, which is the time of the second call.
C2_AsStated ==
    saveHist.twice # None => SecondCallOnlyRefreshes(saveHist.twice)

\* C2 amended: the same, for a record whose ArrestDate gives the record date
\* (M/D/YYYY or a date the parser reads), or when both calls fall on the
\* same calendar day.
C2_IdempotentWhenDateIsFixed ==
    (/\ saveHist.twice # None
     /\ \/ DateFromRecord(saveHist.twice.item.rawData.ArrestDate)
        \/ saveHist.twice.sameDay)
        => SecondCallOnlyRefreshes(saveHist.twice)

\* C2 witness: a record with an arrest date was saved twice, the second time
\* at a later instant and on a later day.
C2_Witness ==
    /\ saveHist.twice # None
    /\ DateFromRecord(saveHist.twice.item.rawData.ArrestDate)
    /\ ~saveHist.twice.sameDay
    /\ saveHist.twice.item \in store
    /\ \E e \in saveHist.twice.first :
          e.PK = saveHist.twice.item.PK /\ e.lastUpdated < saveHist.twice.at

----------------------------------------------------------------------------
(* CookieJar *)

\* s.split(sep) for a one-character separator
RECURSIVE Split(_, _)
Split(s, sep) ==
    IF \E k \in DOMAIN s : s[k] = sep
    THEN LET k == CHOOSE k \in DOMAIN s :
                     s[k] = sep /\ \A j \in 1..(k - 1) : s[j] # sep
         IN  <<SubSeq(s, 1, k - 1)>> \o Split(DropN(s, k), sep)
    ELSE <<s>>

\* s.trim()
RECURSIVE Trim(_)
Trim(s) ==
    IF s # <<>> /\ Head(s) = " " THEN Trim(Tail(s))
    ELSE IF s # <<>> /\ s[Len(s)] = " " THEN Trim(SubSeq(s, 1, Len(s) - 1))
    ELSE s

\* parts.join(sep)
RECURSIVE Join(_, _)
Join(parts, sep) ==
    IF parts = <<>> THEN <<>>
    ELSE IF Len(parts) = 1 THEN parts[1]
    ELSE parts[1] \o sep \o Join(Tail(parts), sep)

\* Map.prototype.set on a Map kept as a sequence of <<name, value>> entries
\* in insertion order
MapSet(map, name, value) ==
    IF \E k \in DOMAIN map : map[k][1] = name
    THEN [k \in DOMAIN map |->
             IF map[k][1] = name THEN <<name, value>> ELSE map[k]]
    ELSE Append(map, <<name, value>>)

\* the body of the loop of CookieJar.setCookie, over the parts of the string
RECURSIVE SetCookieParts(_, _)
SetCookieParts(jar, parts) ==
    IF parts = <<>> THEN jar
    ELSE LET nv == Split(Trim(Head(parts)), "=")
             name == nv[1]
             value == IF Len(nv) >= 2 THEN nv[2] ELSE Undefined
         IN  SetCookieParts(
                 IF name # <<>> /\ value # Undefined /\ value # <<>>
                 THEN MapSet(jar, name, value)
                 ELSE jar,
                 Tail(parts))

\* CookieJar.setCookie
setCookie(jar, cookieString) == SetCookieParts(jar, Split(cookieString, ";"))

\* CookieJar.getCookie: the value, or Undefined
getCookie(jar, name) ==
    IF \E k \in DOMAIN jar : jar[k][1] = name
    THEN jar[CHOOSE k \in DOMAIN jar : jar[k][1] = name][2]
    ELSE Undefined

\* CookieJar.getCookieHeader
getCookieHeader(jar) ==
    Join([k \in DOMAIN jar |-> jar[k][1] \o <<"=">> \o jar[k][2]], <<";", " ">>)

XsrfName == <<"X", "S", "R", "F", "-", "T", "O", "K", "E", "N">>

\* CookieJar.getXsrfToken
getXsrfToken(jar) == getCookie(jar, XsrfName)

\* the response interceptors: every Set-Cookie header of the response (of a
\* success or of an error response) goes to the jar
RECURSIVE CaptureCookies(_, _)
CaptureCookies(jar, setCookieHeader) ==
    IF setCookieHeader = <<>> THEN jar
    ELSE CaptureCookies(setCookie(jar, Head(setCookieHeader)),
                        Tail(setCookieHeader))

RequestHeadersWithoutToken(jar, method) ==
    [Cookie |-> IF getCookieHeader(jar) # <<>>
                THEN getCookieHeader(jar) ELSE Undefined,
     XXsrfToken |-> Undefined,
     Origin |-> method = "POST",
     Referer |-> method = "POST"]

\* the request interceptor: the headers added to a request (Origin and
\* Referer: whether they are set, to baseUrl and baseUrl/Inmates/Catalog)
RequestHeaders(jar, method) ==
    [Cookie |-> IF getCookieHeader(jar) # <<>>
                THEN getCookieHeader(jar) ELSE Undefined,
     XXsrfToken |-> IF method = "POST" /\ getXsrfToken(jar) # Undefined
                         /\ getXsrfToken(jar) # <<>>
                    THEN getXsrfToken(jar) ELSE Undefined,
     Origin |-> method = "POST",
     Referer |-> method = "POST"]

\* Set-Cookie header lists of the upstream's responses
\* "XSRF-TOKEN=t1; path=/"
CookieToken1 == XsrfName \o <<"=", "t", "1", ";", " ", "p", "a", "t", "h", "=", "/">>
\* "XSRF-TOKEN=t2"
CookieToken2 == XsrfName \o <<"=", "t", "2">>
\* "sid=s1; HttpOnly"
CookieSid ==
    <<"s", "i", "d", "=", "s", "1", ";", " ", "H", "t", "t", "p", "O", "n", "l", "y">>

GetSetCookies == {<<>>, <<CookieSid>>, <<CookieSid, CookieToken1>>}
PostSetCookies == {<<>>, <<CookieToken2>>}

----------------------------------------------------------------------------
(* DataCollectionService.collectAllInmates *)

MaxPageSize == 2   \* batchSize of a run is 1..MaxPageSize
MaxRecords == 5    \* the upstream holds 0..MaxRecords records
MaxTotal == 6      \* the upstream reports a Total of -1..MaxTotal

\* Math.ceil(a / b) for b > 0
Ceil(a, b) == -((-a) \div b)

\* let totalRecords: number | null, kept as <<>> (null) or <<number>>
Null == <<>>

\* totalRecords || 0
OrZero(x) == IF x = Null THEN 0 ELSE x[1]

\* The upstream API.  A static source holds records 1..n, honours Take and
\* Skip; a free source answers each request with a page of any length, up
\* to one record more than asked for.  Both report `total` as their Total.
Sources ==
    [mode : {"static"}, n : 0..MaxRecords, total : -1..MaxTotal]
        \cup [mode : {"free"}, n : {0}, total : -1..MaxTotal]

\* the page a static source returns for Take and Skip
StaticPage(src, take, skip) ==
    [Inmates |-> [k \in 1..(Min(skip + take, src.n) - Min(skip, src.n)) |->
                     Min(skip, src.n) + k],
     Total |-> src.total]

\* the response bodies the source may give to a page request
Responses(src, take, skip) ==
    IF src.mode = "static"
    THEN {StaticPage(src, take, skip)}
    ELSE [Inmates : {[k \in 1..len |-> skip + k] : len \in 0..(take + 1)},
          Total : {src.total}]

\* new DataCollectionService(facilityName, baseUrl, batchSize) followed by
\* initializeFacility(), at the call of collectAllInmates (lines 178-182)
NewRun(facilityName, facilityApiId, batchSize) ==
    [pc |-> "Uninitialized",
     facilityId |-> facilityName, facilityApiId |-> facilityApiId,
     batchSize |-> batchSize,
     requestId |-> "uuid-1",
     skip |-> 0, totalProcessed |-> 0, batchNumber |-> 1,
     totalRecords |-> Null,
     batch |-> None,         \* response.data awaiting its enqueue
     fetched |-> <<>>,       \* history: the pages fetched, in order
     error |-> None]         \* the error collectAllInmates rejects with

\* a request of the axios instance, as it leaves the request interceptor
Request(method, jar, apiId, body) ==
    [kind |-> "request", method |-> method, url |-> apiId,
     headers |-> RequestHeaders(jar, method), body |-> body]

\* sqsClient.send(new SendMessageCommand(...)) (lines 266-285)
SendMessage(message) ==
    [kind |-> "request", method |-> "SendMessage", url |-> 0,
     headers |-> None, body |-> message]

Response(ok, setCookieHeader, data) ==
    [kind |-> "response", ok |-> ok, setCookie |-> setCookieHeader,
     data |-> data]

RequestBodySkipByPageNumber(r) ==
    [Take |-> r.batchSize, Skip |-> r.batchNumber - 1]

\* requestBody (lines 188-206): the paging options
RequestBody(r) == [Take |-> r.batchSize, Skip |-> r.skip]

BatchMessageRoundingDown(r, batch, totalRecords) ==
    [facilityId |-> r.facilityId,
     batch |-> batch,
     batchNumber |-> r.batchNumber,
     totalBatches |-> OrZero(totalRecords) \div r.batchSize,
     requestId |-> r.requestId]

\* the message given to sendBatchToQueue (lines 225-233)
BatchMessage(r, batch, totalRecords) ==
    [facilityId |-> r.facilityId,
     batch |-> batch,
     batchNumber |-> r.batchNumber,
     totalBatches |-> Ceil(OrZero(totalRecords), r.batchSize),
     requestId |-> r.requestId]

FailRetryingOnce(r, what) ==
    IF what = "post" /\ r.error = None
    THEN [r EXCEPT !.pc = "Paging",
                   !.error = [what |-> "retried", page |-> r.batchNumber]]
    ELSE [r EXCEPT !.pc = "Failed",
                   !.error = [what |-> what, page |-> r.batchNumber]]

\* the catch block of collectAllInmates (lines 252-258): the error is
\* reported and thrown again
Fail(r, what) ==
    [r EXCEPT !.pc = "Failed",
              !.error = [what |-> what, page |-> r.batchNumber]]

\* initializeSession: axiosInstance.get is issued
SessionGet ==
    /\ run # None /\ run.pc = "Uninitialized"
    /\ http' = Append(http, Request("GET", cookieJar, run.facilityApiId, None))
    /\ run' = [run EXCEPT !.pc = "AwaitGet"]
    /\ UNCHANGED <<source, cookieJar, queue, storeVars, inv, reply, procVars>>

SessionOutcomeWithoutTokenCheck(r, ok, jar) ==
    IF ~ok
    THEN [r EXCEPT !.pc = "Failed",
                   !.error = [what |-> "get", page |-> r.batchNumber]]
    ELSE [r EXCEPT !.pc = "SessionEstablished"]

\* initializeSession after the GET has settled (lines 155-173), with the jar
\* as the response left it
SessionOutcome(r, ok, jar) ==
    IF ~ok THEN Fail(r, "get")
    ELSE IF getXsrfToken(jar) = Undefined \/ getXsrfToken(jar) = <<>>
    THEN Fail(r, "no XSRF token")
    ELSE [r EXCEPT !.pc = "SessionEstablished"]

\* The GET settles.  Its cookies are captured whether it succeeded or not.
SessionGetSettled ==
    /\ run # None /\ run.pc = "AwaitGet"
    /\ \E ok \in BOOLEAN, setCookieHeader \in GetSetCookies :
        LET jar == CaptureCookies(cookieJar, setCookieHeader)
        IN  /\ cookieJar' = jar
            /\ http' = Append(http, Response(ok, setCookieHeader, None))
            /\ run' = SessionOutcome(run, ok, jar)
    /\ UNCHANGED <<source, queue, storeVars, inv, reply, procVars>>

\* the top of the loop: the page request is built and posted
PagePost ==
    /\ run # None /\ run.pc \in {"SessionEstablished", "Paging"}
    /\ http' = Append(http, Request("POST", cookieJar, run.facilityApiId,
                                    RequestBody(run)))
    /\ run' = [run EXCEPT !.pc = "AwaitPost"]
    /\ UNCHANGED <<source, cookieJar, queue, storeVars, inv, reply, procVars>>

\* The POST settles.  On success the first page's Total is kept and
\* sendBatchToQueue is called with the page (lines 214-233).
PagePostSettled ==
    /\ run # None /\ run.pc = "AwaitPost"
    /\ LET req == http[Len(http)]
       IN  \E ok \in BOOLEAN, setCookieHeader \in PostSetCookies,
              batch \in Responses(source, req.body.Take, req.body.Skip) :
            /\ cookieJar' = CaptureCookies(cookieJar, setCookieHeader)
            /\ IF ~ok
               THEN /\ run' = Fail(run, "post")
                    /\ http' = Append(http, Response(FALSE, setCookieHeader,
                                                     None))
               ELSE LET totalRecords == IF run.totalRecords = Null
                                        THEN <<batch.Total>>
                                        ELSE run.totalRecords
                    IN  /\ run' = [run EXCEPT
                                     !.pc = "AwaitEnqueue",
                                     !.totalRecords = totalRecords,
                                     !.batch = batch,
                                     !.fetched = Append(@, batch)]
                        /\ http' = Append(
                             Append(http, Response(TRUE, setCookieHeader, batch)),
                             SendMessage(BatchMessage(run, batch, totalRecords)))
    /\ UNCHANGED <<source, queue, storeVars, inv, reply, procVars>>

\* the test that ends the loop (lines 238-241), after totalProcessed += length
LoopEndsUnlessTotalExceeded(r, batch, totalProcessed) ==
    \/ Len(batch.Inmates) < r.batchSize
    \/ totalProcessed > OrZero(r.totalRecords)

LoopEndsAfterFirstPage(r, batch, totalProcessed) == TRUE

LoopEnds(r, batch, totalProcessed) ==
    \/ Len(batch.Inmates) < r.batchSize
    \/ totalProcessed >= OrZero(r.totalRecords)

AfterEnqueueSkipByCount(r) ==
    LET totalProcessed == r.totalProcessed + Len(r.batch.Inmates)
    IN  IF LoopEnds(r, r.batch, totalProcessed)
        THEN [r EXCEPT !.pc = "Completed",
                       !.totalProcessed = totalProcessed, !.batch = None]
        ELSE [r EXCEPT !.pc = "Paging",
                       !.totalProcessed = totalProcessed, !.batch = None,
                       !.skip = @ + Len(r.batch.Inmates),
                       !.batchNumber = @ + 1]

\* lines 235-246, after the enqueue was acknowledged: the loop ends or moves
\* to the next page
AfterEnqueue(r) ==
    LET totalProcessed == r.totalProcessed + Len(r.batch.Inmates)
    IN  IF LoopEnds(r, r.batch, totalProcessed)
        THEN [r EXCEPT !.pc = "Completed",
                       !.totalProcessed = totalProcessed, !.batch = None]
        ELSE [r EXCEPT !.pc = "Paging",
                       !.totalProcessed = totalProcessed, !.batch = None,
                       !.skip = @ + r.batchSize,
                       !.batchNumber = @ + 1]

EnqueuedUnlessEmpty(q, message) ==
    IF message.batch.Inmates = <<>> THEN q ELSE Append(q, message)

\* the queue after SendMessage was accepted
Enqueued(q, message) == Append(q, message)

\* sqsClient.send settles: the message is in the queue, or the run fails
EnqueueSettled ==
    /\ run # None /\ run.pc = "AwaitEnqueue"
    /\ \E ok \in BOOLEAN :
        /\ http' = Append(http, Response(ok, <<>>, None))
        /\ IF ~ok
           THEN /\ run' = Fail(run, "enqueue")
                /\ UNCHANGED queue
           ELSE /\ queue' = Enqueued(queue, http[Len(http)].body)
                /\ run' = AfterEnqueue(run)
    /\ UNCHANGED <<source, cookieJar, storeVars, inv, reply, procVars>>

\* One collection run against one source
InitCollect ==
    /\ StoreInit /\ IngestIdle /\ ReadIdle /\ ProcIdle
    /\ source \in Sources
    /\ \E batchSize \in 1..MaxPageSize : run = NewRun(Wake, 384, batchSize)
    /\ cookieJar = <<>>
    /\ queue = <<>>
    /\ http = <<>>

NextCollect ==
    \/ SessionGet
    \/ SessionGetSettled
    \/ PagePost
    \/ PagePostSettled
    \/ EnqueueSettled

SpecCollect == InitCollect /\ [][NextCollect]_vars

\* Every request has a timeout (axios timeout: 30000) and the SDK's send
\* settles, so a run that can take a step takes one.
SpecCollectFair == SpecCollect /\ WF_vars(NextCollect)

----------------------------------------------------------------------------
(* Claims about a collection run (SpecCollect, SpecCollectFair) *)

Max(a, b) == IF a > b THEN a ELSE b

Requests(method) ==
    SelectSeq(http, LAMBDA e : e.kind = "request" /\ e.method = method)
NumPosts == Len(Requests("POST"))
NumSends == Len(Requests("SendMessage"))

\* the records of the first k work units of q, in order
RECURSIVE Emitted(_, _)
Emitted(q, k) ==
    IF k = 0 THEN <<>> ELSE Emitted(q, k - 1) \o q[k].batch.Inmates

Terminal == run.pc \in {"Completed", "Failed"}

\* C3: the step that emits page k ends the loop exactly when page k is
\* shorter than the page size or the records emitted through page k are at
\* least the Total of the first page; otherwise the run is left about to
\* request page k+1, and its next step is that request.
C3_LoopStopsIffShortPageOrTotalReached ==
    [][/\ Len(queue') = Len(queue) + 1 =>
            LET k == Len(queue')
                short == Len(queue'[k].batch.Inmates) < run.batchSize
                reached == Len(Emitted(queue', k)) >= queue'[1].batch.Total
            IN  /\ run'.pc = "Completed" <=> (short \/ reached)
                /\ run'.pc \in {"Completed", "Paging"}
       /\ run.pc = "Paging" =>
            /\ run'.pc = "AwaitPost"
            /\ Len(http') = Len(http) + 1
            /\ http'[Len(http')].method = "POST"
            /\ http'[Len(http')].body.Skip = Len(queue) * run.batchSize
      ]_vars

\* C3 witness: a run stopped after a second, full page because the Total of
\* the first page was reached, having gone on after the first page.
C3_Witness ==
    /\ run.pc = "Completed"
    /\ Len(queue) = 2
    /\ Len(queue[2].batch.Inmates) = run.batchSize
    /\ NumPosts = 2

\* page k of the list 1..n cut into pages of p records
PageOf(n, p, k) == [j \in 1..Min(p, n - (k - 1) * p) |-> (k - 1) * p + j]
ExpectedPages(n, p) == IF n = 0 THEN 1 ELSE Ceil(n, p)

\* C4: against a static source of N records that reports Total = N, with
\* page size P: the run never issues more than ceil(N/P) page requests (one
\* when N = 0), work unit k is page k of the record list, and a completed run
\* has issued exactly that many requests and emitted every record once, in
\* order.
C4_StaticSourcePagedExactly ==
    (source.mode = "static" /\ source.total = source.n) =>
        LET expected == ExpectedPages(source.n, run.batchSize)
        IN  /\ NumPosts <= expected
            /\ \A k \in DOMAIN queue :
                  /\ k <= expected
                  /\ queue[k].batch.Inmates = PageOf(source.n, run.batchSize, k)
            /\ run.pc = "Completed" =>
                  /\ NumPosts = expected
                  /\ Len(queue) = expected
                  /\ Emitted(queue, Len(queue)) = [i \in 1..source.n |-> i]

\* C4 witness: 5 records with page size 2 were emitted as pages of 2, 2, 1.
C4_Witness ==
    /\ source.mode = "static" /\ source.n = 5 /\ source.total = 5
    /\ run.batchSize = 2
    /\ run.pc = "Completed"
    /\ NumPosts = 3
    /\ Len(queue[3].batch.Inmates) = 1

\* C5: whatever the source answers, the run reaches Completed or Failed, and
\* it never issues more than max(1, ceil(Total / pageSize)) page requests,
\* Total being the Total of the first page (one request before it is known).
C5_RunTerminatesWithinBound ==
    /\ <>Terminal
    /\ [](NumPosts <= IF run.fetched = <<>> THEN 1
                      ELSE Max(1, Ceil(run.fetched[1].Total, run.batchSize)))

\* C5 witness: a run against a free source completed after three or more
\* page requests, as many as the bound allows.
C5_Witness ==
    /\ source.mode = "free"
    /\ run.pc = "Completed"
    /\ NumPosts >= 3
    /\ NumPosts = Ceil(run.fetched[1].Total, run.batchSize)

HasToken(jar) == getXsrfToken(jar) # Undefined /\ getXsrfToken(jar) # <<>>

\* C6: every POST comes after the one GET of initializeSession has succeeded
\* and left an XSRF-TOKEN in the jar; when the GET failed or left no token
\* the run is Failed with that error, and has issued nothing else: no page
\* request, no work unit.
C6_NoPostBeforeSession ==
    /\ Len(Requests("GET")) <= 1
    /\ \A k \in DOMAIN http :
          (http[k].kind = "request" /\ http[k].method # "GET") =>
              /\ k > 2
              /\ http[1].method = "GET"
              /\ http[2].kind = "response" /\ http[2].ok
              /\ HasToken(CaptureCookies(<<>>, http[2].setCookie))
              /\ HasToken(cookieJar)
    /\ (/\ Len(http) >= 2
        /\ ~(http[2].ok /\ HasToken(CaptureCookies(<<>>, http[2].setCookie)))) =>
              /\ run.pc = "Failed"
              /\ run.error # None
              /\ run.error.what \in {"get", "no XSRF token"}
              /\ Len(http) = 2
              /\ NumPosts = 0
              /\ queue = <<>>

\* C6 witness: the GET succeeded and set a cookie, but no XSRF-TOKEN, and the
\* run failed.
C6_Witness ==
    /\ Len(http) = 2
    /\ http[2].ok /\ http[2].setCookie # <<>>
    /\ run.pc = "Failed" /\ run.error.what = "no XSRF token"

\* the work units in the queue that carry fetched page k
UnitsFor(k) ==
    Cardinality({j \in DOMAIN queue :
                    queue[j].batchNumber = k /\ queue[j].batch = run.fetched[k]})

\* the enqueue of fetched page k has settled
Settled(k) == k < Len(run.fetched) \/ run.pc # "AwaitEnqueue"

EnqueueFailed(k) ==
    run.pc = "Failed" /\ run.error.what = "enqueue" /\ run.error.page = k

\* every request is followed by its response before anything else is sent,
\* and the request for page n+1 follows the acknowledgement of page n's
\* enqueue
Sequential ==
    /\ \A k \in DOMAIN http :
          (http[k].kind = "request" /\ k < Len(http)) =>
              http[k + 1].kind = "response"
    /\ \A k \in DOMAIN http :
          (http[k].kind = "request" /\ http[k].method = "POST"
              /\ http[k].body.Skip > 0) =>
              /\ http[k - 1].kind = "response" /\ http[k - 1].ok
              /\ http[k - 2].method = "SendMessage"
              /\ (http[k - 2].body.batchNumber) * run.batchSize
                    = http[k].body.Skip

\* C7 as stated: every page fetched is enqueued exactly once as one work
\* unit, and requests are strictly sequential.
C7_AsStated ==
    /\ \A k \in DOMAIN run.fetched : Settled(k) => UnitsFor(k) = 1
    /\ Sequential

\* C7 amended: every page fetched, the empty and the final one included, is
\* handed to the queue by exactly one SendMessage call and is in the queue
\* exactly once, unless that call failed: then the page is not enqueued at
\* all and the run is Failed.  Requests are strictly sequential.
C7_EachPageSentOnceEnqueuedUnlessSendFails ==
    /\ NumSends = Len(run.fetched)
    /\ Len(queue) <= Len(run.fetched)
    /\ \A k \in DOMAIN run.fetched :
          Settled(k) => UnitsFor(k) = IF EnqueueFailed(k) THEN 0 ELSE 1
    /\ Sequential

\* C7 witness: a completed run whose third and final page was empty, and is
\* in the queue.
C7_Witness ==
    /\ run.pc = "Completed"
    /\ Len(run.fetched) = 3
    /\ run.fetched[3].Inmates = <<>>
    /\ UnitsFor(3) = 1

\* C8: when the request or the enqueue of page k fails, the run is Failed
\* with that error; the failed response is the last thing that happened
\* (no retry, no later request), page k was requested once, and the queue
\* holds the work units of pages 1..k-1.
C8_FailureStopsRunKeepsQueue ==
    (run.pc = "Failed" /\ run.error.what \in {"post", "enqueue"}) =>
        LET k == run.error.page
        IN  /\ http[Len(http)].kind = "response" /\ ~http[Len(http)].ok
            /\ NumPosts = k
            /\ NumSends = IF run.error.what = "post" THEN k - 1 ELSE k
            /\ Len(queue) = k - 1
            /\ \A j \in DOMAIN queue :
                  queue[j].batchNumber = j /\ queue[j].batch = run.fetched[j]

\* C8 witness: the request for page 3 failed after two pages were enqueued.
C8_Witness ==
    /\ run.pc = "Failed"
    /\ run.error = [what |-> "post", page |-> 3]
    /\ Len(queue) = 2

----------------------------------------------------------------------------
(* processBatch / processSingleBatch *)

\* A record body is text that JSON.parse refuses, or the JSON text of a value.
NotJson == [json |-> FALSE]
JsonArray(items) == [type |-> "array", items |-> items]
JsonObject == [type |-> "object", items |-> <<>>]
InmateApiBatch(inmates) == [Inmates |-> inmates, Total |-> 1]
Body(facilityId, batch, batchNumber) ==
    [json |-> TRUE,
     value |-> [facilityId |-> facilityId, batch |-> batch,
                batchNumber |-> batchNumber, requestId |-> "uuid-1"]]

\* the bodies of the records of an event
SampleBodies ==
    {Body(Wake, InmateApiBatch(JsonArray(<<Doe1>>)), 1),
     Body(Buncombe, InmateApiBatch(JsonArray(<<Doe2, RoeNoDate>>)), 2),
     NotJson,
     Body(Undefined, InmateApiBatch(JsonArray(<<Doe1>>)), 1),
     Body(Wake, None, 1),
     Body(Wake, InmateApiBatch(JsonObject), 1)}

\* an SQSEvent: 1..MaxUnits records
SampleEvents ==
    UNION {[1..n -> SampleBodies] : n \in 1..MaxUnits}

\* processSingleBatch up to its first await (lines 55-64): the error it
\* throws, or "ok"
Validate(body) ==
    IF ~body.json THEN "SyntaxError"
    ELSE IF body.value.facilityId = Undefined \/ body.value.facilityId = <<>>
    THEN "Missing facilityId in batch message"
    ELSE IF body.value.batch = None
    THEN "Invalid batch structure in message"
    ELSE IF body.value.batch.Inmates.type # "array"
    THEN "Invalid batch structure in message"
    ELSE "ok"

StartedUnitsUntilFirstFailure(records) ==
    {k \in DOMAIN records :
        \A j \in 1..(k - 1) : Validate(records[j]) = "ok"}

\* event.Records.map((record) => processSingleBatch(record)): the records
\* processSingleBatch is called for
StartedUnits(records) == DOMAIN records

\* the state of record k of an invocation
\*   "skipped"   processSingleBatch was not called for it
\*   "validated" it passed validation; batchSaveInmates not yet called
\*   "saving"    batchSaveInmates was called and has not settled
\*   "fulfilled", "rejected": processSingleBatch has settled
UnitAtStart(records, k) ==
    IF k \notin StartedUnits(records) THEN "skipped"
    ELSE IF Validate(records[k]) = "ok" THEN "validated"
    ELSE "rejected"

ProcessBatchOutcomeRejectingOnFailure(results) ==
    IF \E k \in DOMAIN results : results[k] = "rejected"
    THEN "threw" ELSE "returned"

\* processBatch once Promise.allSettled has resolved (lines 19-43): failures
\* are counted and reported, and the handler returns
ProcessBatchOutcome(results) == "returned"

\* The Lambda service calls processBatch with an event; processSingleBatch
\* runs for its records up to the first await of each.
Invoke(records) ==
    /\ inv = None
    /\ inv' = [records |-> records,
               units |-> [k \in DOMAIN records |-> UnitAtStart(records, k)],
               outcome |-> "running",
               deleted |-> {}]
    /\ UNCHANGED <<storeVars, collectVars, reply, procVars>>

\* processSingleBatch calls StorageClient.batchSaveInmates (lines 71-74)
UnitSave(k) ==
    /\ inv # None /\ inv.outcome = "running"
    /\ k \in DOMAIN inv.units /\ inv.units[k] = "validated"
    /\ inv' = [inv EXCEPT !.units[k] = "saving"]
    /\ calls' = [calls EXCEPT ![k] =
                    EnterBatchSave(k, inv.records[k].value.facilityId,
                                   inv.records[k].value.batch.Inmates.items)]
    /\ UNCHANGED <<now, store, written, ops, saveHist, collectVars, reply, procVars>>

UnitOutcomeTryingAgain(call) ==
    IF call.status = "rejected" THEN "validated" ELSE call.status

\* processSingleBatch after batchSaveInmates has settled (lines 76-85): it
\* fulfils, or its catch reports the error and throws it again
UnitOutcome(call) == call.status

\* batchSaveInmates has settled and with it processSingleBatch (lines 76-85)
UnitSettled(k) ==
    /\ inv # None /\ inv.outcome = "running"
    /\ k \in DOMAIN inv.units /\ inv.units[k] = "saving"
    /\ calls[k].status \in {"fulfilled", "rejected"}
    /\ inv' = [inv EXCEPT !.units[k] = UnitOutcome(calls[k])]
    /\ UNCHANGED <<storeVars, collectVars, reply, procVars>>

\* Promise.allSettled resolves and processBatch ends.  When it returns, the
\* Lambda service deletes every record of the event from the queue; when it
\* throws, every record stays in the queue and is delivered again.
ProcessBatchEnds ==
    /\ inv # None /\ inv.outcome = "running"
    /\ \A k \in DOMAIN inv.units :
          inv.units[k] \in {"fulfilled", "rejected", "skipped"}
    /\ LET outcome == ProcessBatchOutcome(inv.units)
       IN  inv' = [inv EXCEPT !.outcome = outcome,
                              !.deleted = IF outcome = "returned"
                                          THEN DOMAIN inv.records ELSE {}]
    /\ UNCHANGED <<storeVars, collectVars, reply, procVars>>

\* One processBatch invocation
InitIngest == StoreInit /\ CollectIdle /\ IngestIdle /\ ReadIdle /\ ProcIdle

NextIngest ==
    \/ \E e \in SampleEvents : Invoke(e)
    \/ \E k \in 1..MaxUnits : UnitSave(k)
    \/ \E k \in 1..MaxUnits : BatchWriteSend(k)
    \/ \E k \in 1..MaxUnits : BatchWritePut(k)
    \/ \E k \in 1..MaxUnits : UnitSettled(k)
    \/ ProcessBatchEnds

SpecIngest == InitIngest /\ [][NextIngest]_vars

----------------------------------------------------------------------------
(* Claims about batch ingestion (SpecIngest) *)

Ended == inv # None /\ inv.outcome # "running"
ValidUnits == {k \in DOMAIN inv.records : Validate(inv.records[k]) = "ok"}
MalformedUnits == DOMAIN inv.records \ ValidUnits

\* batchSaveInmates was called for record k with the record's facility and
\* inmates, its first BatchWriteItem was sent, and the call has settled
Attempted(k) ==
    /\ calls[k].status \in {"fulfilled", "rejected"}
    /\ calls[k].facilityId = inv.records[k].value.facilityId
    /\ calls[k].inmates = inv.records[k].value.batch.Inmates.items
    /\ calls[k].sent # <<>>
    /\ inv.units[k] = calls[k].status

\* C9: when a processBatch invocation ends, batchSaveInmates has been
\* attempted for every structurally valid record of the event, with that
\* record's facility and inmates, whichever other records of the event are
\* malformed or failed in storage; and a call that fulfilled has sent every
\* chunk of its record.
C9_EveryValidUnitAttempted ==
    Ended =>
        \A k \in ValidUnits :
            /\ Attempted(k)
            /\ calls[k].status = "fulfilled" =>
                  Len(calls[k].sent) =
                      Ceil(Len(calls[k].inmates), chunkSize)

\* an earlier record failed (malformed, or rejected by storage) and a later
\* record's write was attempted, fulfilled and is in the table
C9_Witness ==
    /\ Ended
    /\ \E j, k \in DOMAIN inv.records :
        /\ j < k
        /\ inv.units[j] = "rejected"
        /\ k \in ValidUnits /\ Attempted(k) /\ inv.units[k] = "fulfilled"
        /\ \E e \in store :
              e.rawData = inv.records[k].value.batch.Inmates.items[1]
    /\ \E j \in ValidUnits : inv.units[j] = "rejected"

\* C10: a record whose body is not JSON, has no facilityId, has no batch or
\* whose batch.Inmates is not an array never gets a storage call, is
\* rejected once at its validation, and the invocation that holds it returns
\* normally, so that the record is deleted from the queue with the others.
C10_MalformedUnitDropped ==
    inv # None =>
        \A k \in MalformedUnits :
            /\ calls[k] = IdleCall
            /\ inv.units[k] = "rejected"
            /\ \A e \in store :
                  \E j \in ValidUnits :
                      LET unit == inv.records[j].value
                      IN  /\ e.rawData \in Range(unit.batch.Inmates.items)
                          /\ e.GSI1PK = getFacilityGSIKeys(
                                 unit.facilityId, e.recordDate).GSI1PK
            /\ Ended => /\ inv.outcome = "returned"
                        /\ k \in inv.deleted

\* an ended invocation that held a record whose body is not JSON next to a
\* valid record that was stored
C10_Witness ==
    /\ Ended
    /\ \E k \in MalformedUnits : ~inv.records[k].json
    /\ \E k \in ValidUnits : inv.units[k] = "fulfilled" /\ store # {}

----------------------------------------------------------------------------
(* Redelivery: the queue delivers a message at least once *)

\* the messages that are delivered again: a record with an arrest date and
\* a record without one
ValidBodies ==
    {Body(Wake, InmateApiBatch(JsonArray(<<Doe1>>)), 1),
     Body(Wake, InmateApiBatch(JsonArray(<<RoeNoDate>>)), 2)}

\* events that hold one message, once or several times
RedeliveryEvents ==
    {[k \in 1..n |-> b] : n \in 1..MaxUnits, b \in ValidBodies}

\* The invocation is over; time passes (the visibility timeout of a message
\* that is delivered again, possibly past midnight) and the Lambda service
\* is free to invoke processBatch again.
InvocationOver ==
    /\ inv # None /\ inv.outcome # "running"
    /\ now.ms < MaxClock
    /\ \E midnight \in BOOLEAN :
        now' = [ms |-> now.ms + 1,
                day |-> IF midnight THEN now.day + 1 ELSE now.day]
    /\ inv' = None
    /\ calls' = [c \in CallIds |-> IdleCall]
    /\ UNCHANGED <<store, written, ops, saveHist, collectVars, reply, procVars>>

NextRedeliver ==
    \/ \E e \in RedeliveryEvents : Invoke(e)
    \/ \E k \in 1..MaxUnits : UnitSave(k)
    \/ \E k \in 1..MaxUnits : BatchWriteSend(k)
    \/ \E k \in 1..MaxUnits : BatchWritePut(k)
    \/ \E k \in 1..MaxUnits : UnitSettled(k)
    \/ ProcessBatchEnds
    \/ InvocationOver

SpecRedeliver == InitIngest /\ [][NextRedeliver]_vars

----------------------------------------------------------------------------
(* Claims about redelivery (SpecRedeliver) *)

\* an item without its lastUpdated
StripUpdated(item) == [f \in DOMAIN item \ {"lastUpdated"} |-> item[f]]

\* the items that ingesting raw record r for the facility of GSI1PK g wrote
WritesOf(g, r) ==
    {k \in DOMAIN written : written[k].GSI1PK = g /\ written[k].rawData = r}

\* Every ingestion of a raw record after its first wrote the item the first
\* one wrote, lastUpdated aside, and the table holds that item once: the
\* keys and the field values are those left by the first ingestion.
RedeliveryHarmlessFor(g, r) ==
    /\ \A k, l \in WritesOf(g, r) :
          StripUpdated(written[k]) = StripUpdated(written[l])
    /\ Cardinality({e \in store : e.GSI1PK = g /\ e.rawData = r}) <= 1
    /\ Cardinality({StripUpdated(e) : e \in store}) = Cardinality(store)

\* C11 as stated: ingesting the same work unit two or more times, in one
\* invocation or in several, leaves the table with the keys and the field
\* values (lastUpdated aside) of ingesting it once.
C11_AsStated ==
    \A k \in DOMAIN written :
        RedeliveryHarmlessFor(written[k].GSI1PK, written[k].rawData)

\* C11 amended: the same, for the records of the work unit whose ArrestDate
\* gives the record date, and for every record as long as all deliveries are
\* ingested on one calendar day.
C11_RedeliveryHarmlessWhenDateIsFixed ==
    \A k \in DOMAIN written :
        (DateFromRecord(written[k].rawData.ArrestDate) \/ now.day = 0) =>
            RedeliveryHarmlessFor(written[k].GSI1PK, written[k].rawData)

\* C11 witness: a record with an arrest date was ingested twice in one
\* invocation and again in a later invocation on a later day, and the table
\* holds one item for it
C11_Witness ==
    /\ now.day > 0
    /\ Ended
    /\ \E k, l, m \in DOMAIN written :
          /\ k < l /\ l < m
          /\ DateFromRecord(written[k].rawData.ArrestDate)
          /\ {l, m} \subseteq WritesOf(written[k].GSI1PK, written[k].rawData)
          /\ written[k].lastUpdated = written[l].lastUpdated
          /\ written[l].lastUpdated < written[m].lastUpdated
          /\ Cardinality(store) = 1

----------------------------------------------------------------------------
(* One batchSaveInmates call over a long roster *)

MaxRoster == 51

\* batchSaveInmates(Wake, Roster(n)) has been entered on an empty table
InitChunks ==
    /\ now = [ms |-> 0, day |-> 0]
    /\ store = {}
    /\ written = <<>>
    /\ ops = 1
    /\ saveHist = [last |-> None, twice |-> None]
    /\ \E n \in 0..MaxRoster :
          calls = [c \in CallIds |->
                     IF c = 0 THEN EnterBatchSave(0, Wake, Roster(n))
                     ELSE IdleCall]
    /\ CollectIdle /\ IngestIdle /\ ReadIdle /\ ProcIdle

NextChunks ==
    \/ BatchWriteSend(0)
    \/ BatchWritePut(0)

SpecChunks == InitChunks /\ [][NextChunks]_vars

\* the position in the input of a roster record that was written
Position(item) == item.rawData.Extra

\* group g of n records: the positions it covers
GroupRange(g, n) == <<chunkSize * (g - 1) + 1, Min(chunkSize * g, n)>>

\* C12: batchSaveInmates with n records issues ceil(n/25) BatchWrite calls,
\* none for n = 0, one after another; call g carries records 25(g-1)+1 ..
\* min(25g, n) in input order, so the groups are disjoint, hold at most 25
\* records each and cover the input.
C12_GroupsOfTwentyFiveInOrder ==
    LET call == calls[0]
        n == Len(call.inmates)
    IN  /\ chunkSize = 25
        /\ Len(call.sent) <= Ceil(n, 25)
        /\ call.status = "fulfilled" => Len(call.sent) = Ceil(n, 25)
        /\ \A g \in DOMAIN call.sent :
              /\ call.sent[g] = GroupRange(g, n)
              /\ call.sent[g][2] - call.sent[g][1] + 1 \in 1..25
        \* the request in flight carries records of the last group, in order
        /\ \A k \in DOMAIN call.pending :
              /\ Position(call.pending[k]) >= call.sent[Len(call.sent)][1]
              /\ Position(call.pending[k]) <= call.sent[Len(call.sent)][2]
              /\ call.pending[k].rawData = call.inmates[Position(call.pending[k])]
              /\ \A l \in DOMAIN call.pending :
                    k < l => Position(call.pending[k]) < Position(call.pending[l])
        \* a group is written only after the groups before it have returned
        /\ \A k, l \in DOMAIN written :
              k < l => Position(written[k]) < Position(written[l])
        /\ \A k \in DOMAIN written :
              /\ Position(written[k]) <= call.i + chunkSize
              /\ written[k].rawData = call.inmates[Position(written[k])]
        /\ call.status = "writing" =>
              \A k \in DOMAIN written :
                  Position(written[k]) < Position(Head(call.pending))

\* C12 witness: 30 records went out as two calls, 25 and 5, and every one
\* of them is in the table
C12_Witness ==
    /\ calls[0].status = "fulfilled"
    /\ Len(calls[0].inmates) = 30
    /\ calls[0].sent = <<(<<1, 25>>), (<<26, 30>>)>>
    /\ Cardinality(store) = 30


\* the records of group g that were written
WrittenOfGroup(g, n) ==
    {k \in DOMAIN written :
        /\ Position(written[k]) >= GroupRange(g, n)[1]
        /\ Position(written[k]) <= GroupRange(g, n)[2]}

----------------------------------------------------------------------------
(* StorageClient: read operations *)

MaxLimit == 2

\* the characters of keys and dates, in the order of their UTF-8 bytes
CharOrder ==
    <<" ", "#", "'", "-", ".", "/">> \o Digits \o <<":">> \o Upper \o Lower
CharCode(c) == CHOOSE i \in DOMAIN CharOrder : CharOrder[i] = c

\* DynamoDB's order of strings: byte by byte, a proper prefix first
RECURSIVE StrLeq(_, _)
StrLeq(a, b) ==
    IF a = <<>> THEN TRUE
    ELSE IF b = <<>> THEN FALSE
    ELSE IF Head(a) = Head(b) THEN StrLeq(Tail(a), Tail(b))
    ELSE CharCode(Head(a)) < CharCode(Head(b))

\* a string that is given and not empty
Truthy(s) == s # Undefined /\ s # <<>>

StartsWith(s, prefix) ==
    Len(s) >= Len(prefix) /\ SubSeq(s, 1, Len(prefix)) = prefix

\* an upstream record with other fields next to the ones the code reads:
\* other maps their names to their values
WithOther(inmate, other) ==
    [f \in DOMAIN inmate \cup {"Other"} |->
        IF f = "Other" THEN other ELSE inmate[f]]

\* removeDynamoAttributes on the fields of one object
WithoutDynamoAttributes(object) ==
    [f \in DOMAIN object \ DYNAMO_ATTRIBUTES |-> object[f]]

removeDynamoAttributesTopLevelOnly(item) == WithoutDynamoAttributes(item)

\* removeDynamoAttributes(item) for a stored item: the four attributes are
\* deleted from the item and, by the recursion over Object.keys, from every
\* object nested in it, the raw record included
removeDynamoAttributes(item) ==
    LET cleanedObject == WithoutDynamoAttributes(item)
        raw == cleanedObject.rawData
    IN  [cleanedObject EXCEPT !.rawData =
            IF "Other" \in DOMAIN raw
            THEN WithOther(
                    [f \in DOMAIN raw \ {"Other"} |-> raw[f]],
                    WithoutDynamoAttributes(raw.Other))
            ELSE raw]

\* the sequences that hold every element of S once, sorted by GSI1SK:
\* ascending when forward, else descending; equal keys in any order
Orderings(S, forward) ==
    {o \in [1..Cardinality(S) -> S] :
        /\ \A i, j \in DOMAIN o : i # j => o[i] # o[j]
        /\ \A i, j \in DOMAIN o :
              i < j => IF forward THEN StrLeq(o[i].GSI1SK, o[j].GSI1SK)
                       ELSE StrLeq(o[j].GSI1SK, o[i].GSI1SK)}

\* DynamoDB Query on index GSI1.  The key condition is pkOp on GSI1PK ("="
\* or "begins_with") and lo <= GSI1SK <= hi, a bound that is Undefined being
\* absent.  DynamoDB refuses a key condition whose partition key test is
\* not an equality, and a BETWEEN whose bounds are out of order; else the
\* answer is the first `limit` matching items in index order.
QueryGSI1(table, pkOp, pk, lo, hi, forward, limit) ==
    IF pkOp # "=" \/ (lo # Undefined /\ hi # Undefined /\ ~StrLeq(lo, hi))
    THEN {[error |-> TRUE, items |-> <<>>]}
    ELSE LET matching ==
                 {e \in table :
                     /\ e.GSI1PK = pk
                     /\ lo # Undefined => StrLeq(lo, e.GSI1SK)
                     /\ hi # Undefined => StrLeq(e.GSI1SK, hi)}
         IN  {[error |-> FALSE, items |-> FirstN(o, limit)] :
                 o \in Orderings(matching, forward)}

\* the sequences that hold every element of S once, sorted by PK and then SK
KeyOrderings(S) ==
    {o \in [1..Cardinality(S) -> S] :
        /\ \A i, j \in DOMAIN o : i # j => o[i] # o[j]
        /\ \A i, j \in DOMAIN o :
              i < j => \/ o[i].PK # o[j].PK /\ StrLeq(o[i].PK, o[j].PK)
                       \/ o[i].PK = o[j].PK /\ StrLeq(o[i].SK, o[j].SK)}

\* DynamoDB Query on the table with begins_with(PK, :pkPrefix) as its only
\* key condition.  DynamoDB refuses a key condition whose partition key test
\* is not an equality; the function is written for a store that answers
\* with the first `limit` items whose PK begins with the prefix, in key
\* order.  Both answers are kept.
QueryTableByPkPrefix(table, prefix, limit) ==
    {[error |-> TRUE, items |-> <<>>]}
        \cup {[error |-> FALSE, items |-> FirstN(o, limit)] :
                 o \in KeyOrderings({e \in table : StartsWith(e.PK, prefix)})}

GetItemIgnoringSortKey(table, key) ==
    LET found == {e \in table : e.PK = key.PK}
    IN  [error |-> FALSE,
         items |-> IF found = {} THEN <<>> ELSE <<CHOOSE e \in found : TRUE>>]

\* DynamoDB GetItem
GetItem(table, key) ==
    LET found == {e \in table : e.PK = key.PK /\ e.SK = key.SK}
    IN  [error |-> FALSE,
         items |-> IF found = {} THEN <<>> ELSE <<CHOOSE e \in found : TRUE>>]

ReturnedAsStored(answer) == answer

\* (result.Items || []).map((item) => removeDynamoAttributes(item)); a
\* rejected send is rethrown
Returned(answer) ==
    [error |-> answer.error,
     items |-> [k \in DOMAIN answer.items |->
                  removeDynamoAttributes(answer.items[k])]]


FacilityPrefix == <<"F", "A", "C", "I", "L", "I", "T", "Y", "#">>
InmatePrefix == <<"I", "N", "M", "A", "T", "E", "#">>

\* a dynamoDb.send that rejects: the function logs and rethrows
Thrown == [error |-> TRUE, items |-> <<>>]

\* the date one day before the clock's, as toISOString().split("T")[0]
CutoffDate(t) == IsoDate([t EXCEPT !.day = @ - 1])

\* the bounds of the key condition (lines 272-283)
RangeBounds(startDate, endDate) ==
    IF Truthy(startDate) /\ Truthy(endDate)
    THEN [lo |-> startDate, hi |-> endDate]
    ELSE IF Truthy(startDate) THEN [lo |-> startDate, hi |-> Undefined]
    ELSE IF Truthy(endDate) THEN [lo |-> Undefined, hi |-> endDate]
    ELSE [lo |-> Undefined, hi |-> Undefined]

\* what the read functions may return, for the table as it is
getInmatesByFacilityAndDateRange(table, facilityId, startDate, endDate, limit) ==
    LET b == RangeBounds(startDate, endDate)
    IN  {Returned(a) :
            a \in QueryGSI1(table, "=", FacilityPrefix \o facilityId,
                            b.lo, b.hi, FALSE, limit)}

getInmatesByFacility(table, facilityId, limit, t) ==
    getInmatesByFacilityAndDateRange(table, facilityId, CutoffDate(t),
                                     Undefined, limit)

getAllRecentInmates(table, limit, t) ==
    {Returned(a) :
        a \in QueryGSI1(table, "begins_with", FacilityPrefix,
                        CutoffDate(t), Undefined, FALSE, limit)}

searchInmatesByLastName(table, facilityId, lastName, limit) ==
    {Returned(a) :
        a \in QueryTableByPkPrefix(
                 table,
                 InmatePrefix \o facilityId \o <<"#">> \o ToUpperCase(lastName),
                 limit)}

getInmate(table, facilityId, lastName, firstName, middleName, recordDate) ==
    {Returned(GetItem(table, KeyInmate(facilityId, lastName, firstName,
                                       middleName, recordDate)))}

\* a read: reply holds the call, the table it read and what it returned (or
\* that it threw).
\* A read changes nothing but reply, so one read per behaviour reaches every
\* pair of a table and an answer to a read of it.
Read(op, q, results) ==
    /\ reply = None
    /\ \E r \in results \cup {Thrown} :
          reply' = [op |-> op, q |-> q, table |-> store, error |-> r.error,
                    items |-> r.items]
    /\ UNCHANGED <<storeVars, collectVars, inv, procVars>>

GetInmatesByFacilityAndDateRange(facilityId, startDate, endDate, limit) ==
    Read("getInmatesByFacilityAndDateRange",
         [facilityId |-> facilityId, startDate |-> startDate,
          endDate |-> endDate, limit |-> limit],
         getInmatesByFacilityAndDateRange(store, facilityId, startDate,
                                          endDate, limit))

GetInmatesByFacility(facilityId, limit) ==
    Read("getInmatesByFacility",
         [facilityId |-> facilityId, limit |-> limit],
         getInmatesByFacility(store, facilityId, limit, now))

GetAllRecentInmates(limit) ==
    Read("getAllRecentInmates", [limit |-> limit],
         getAllRecentInmates(store, limit, now))

SearchInmatesByLastName(facilityId, lastName, limit) ==
    Read("searchInmatesByLastName",
         [facilityId |-> facilityId, lastName |-> lastName, limit |-> limit],
         searchInmatesByLastName(store, facilityId, lastName, limit))

GetInmate(facilityId, inmate, recordDate) ==
    Read("getInmate",
         [facilityId |-> facilityId, inmate |-> inmate,
          recordDate |-> recordDate],
         getInmate(store, facilityId, OrEmpty(inmate.LastName),
                   OrEmpty(inmate.FirstName), OrEmpty(inmate.MiddleName),
                   recordDate))

\* Inputs of the reads and of the writes that precede them
\* "10/1/2025"
ArrestOct1 == <<"1", "0", "/", "1", "/", "2", "0", "2", "5">>
Poe1 == Inmate(<<"P", "o", "e">>, <<"A", "n", "n">>, Undefined, Amount(100),
               ArrestOct1, 6)
\* a record with two more upstream fields, one of them named PK
Moe1 == WithOther(Inmate(<<"M", "o", "e">>, Undefined, Undefined, NoAmount,
                         ArrestIso, 7),
                  [InmateID |-> <<"7">>, PK |-> <<"x">>])
\* a record with one more upstream field
Moe2 == WithOther(Inmate(<<"M", "o", "e">>, <<"B", "o">>, Undefined, NoAmount,
                         ArrestOct1, 8),
                  [InmateID |-> <<"8">>])

ReadWrites ==
    {<<Wake, r>> : r \in {Doe1, RoeBadDate, Poe1, Moe1, Moe2}}
        \cup {<<Buncombe, Doe1>>}

\* the names of Doe1 in another letter case and with punctuation
DoeLoud == Inmate(<<"D", "O", "E">>, <<"j", "o", "-", "h", "n">>, <<".">>,
                  NoAmount, Undefined, 0)
\* a person no write is about
Nye == Inmate(<<"N", "y", "e">>, Undefined, Undefined, NoAmount, Undefined, 0)
\* the people getInmate is asked for: <<facilityId, names>>
ReadPeople == ReadWrites \cup {<<Wake, DoeLoud>>, <<Wake, Nye>>}

D0915 == ArrestIso
\* "2025-10-01"
D1001 == <<"2", "0", "2", "5", "-", "1", "0", "-", "0", "1">>
QueryDates == {Undefined, D0915, D1001}
QueryNames == {<<"D", "o", "e">>, <<"m", "o">>, <<>>}

\* StorageClient used by the API: writes, then reads of the table
InitRead == InitStore

NextRead ==
    \/ \E a \in ReadWrites : SaveInmate(a[1], a[2])
    \/ \E f \in FacilityIds, s, e \in QueryDates, limit \in 1..MaxLimit :
          GetInmatesByFacilityAndDateRange(f, s, e, limit)
    \/ \E f \in FacilityIds, limit \in 1..MaxLimit :
          GetInmatesByFacility(f, limit)
    \/ \E limit \in 1..MaxLimit : GetAllRecentInmates(limit)
    \/ \E f \in FacilityIds, n \in QueryNames, limit \in 1..MaxLimit :
          SearchInmatesByLastName(f, n, limit)
    \/ \E a \in ReadPeople, d \in QueryDates \ {Undefined} :
          GetInmate(a[1], a[2], d)

SpecRead == InitRead /\ [][NextRead]_vars

----------------------------------------------------------------------------
(* Claims about the reads (SpecRead) *)

\* the calendar date <<year, month, day>> that a record date or a query
\* bound names, written YYYY-MM-DD or M/D/YYYY
CalendarOf(d) ==
    IF MatchMDY(d) # <<>>
    THEN <<DigitsToNum(MatchMDY(d)[3]), DigitsToNum(MatchMDY(d)[1]),
           DigitsToNum(MatchMDY(d)[2])>>
    ELSE <<DigitsToNum(SubSeq(d, 1, 4)), DigitsToNum(SubSeq(d, 6, 7)),
           DigitsToNum(SubSeq(d, 9, 10))>>

\* calendar date a is not after calendar date b
CalLeq(a, b) ==
    \/ a[1] < b[1]
    \/ a[1] = b[1] /\ a[2] < b[2]
    \/ a[1] = b[1] /\ a[2] = b[2] /\ a[3] <= b[3]

RangeReply ==
    /\ reply # None
    /\ reply.op = "getInmatesByFacilityAndDateRange"
    /\ ~reply.error

\* the answer holds only records of the facility and at most limit of them
OnlyOfFacilityAtMostLimit ==
    /\ Len(reply.items) <= reply.q.limit
    /\ \A k \in DOMAIN reply.items :
          \E e \in store :
              /\ e.GSI1PK = FacilityPrefix \o reply.q.facilityId
              /\ removeDynamoAttributes(e) = reply.items[k]

\* the answer's record dates lie within the bounds as calendar dates and
\* run from the most recent to the oldest
WithinBoundsMostRecentFirst ==
    /\ \A k \in DOMAIN reply.items :
          /\ Truthy(reply.q.startDate) =>
                CalLeq(CalendarOf(reply.q.startDate),
                       CalendarOf(reply.items[k].recordDate))
          /\ Truthy(reply.q.endDate) =>
                CalLeq(CalendarOf(reply.items[k].recordDate),
                       CalendarOf(reply.q.endDate))
    /\ \A i, j \in DOMAIN reply.items :
          i < j => CalLeq(CalendarOf(reply.items[j].recordDate),
                          CalendarOf(reply.items[i].recordDate))

\* C14: for any table contents that saveInmate and batchSaveInmates produce,
\* getInmatesByFacilityAndDateRange(facilityId, start, end, limit) returns
\* only records stored under the facility whose record date d satisfies
\* start <= d <= end as calendar dates (an omitted bound is no bound),
\* ordered by record date most recent first, and at most limit of them.
C14_RangeQueryByCalendarDate ==
    RangeReply => OnlyOfFacilityAtMostLimit /\ WithinBoundsMostRecentFirst

\* what holds of the code: the same when every record date in the table is
\* written YYYY-MM-DD
C14_RangeQueryWhenDatesCanonical ==
    (RangeReply /\ \A e \in store : MatchMDY(e.recordDate) = <<>>)
        => OnlyOfFacilityAtMostLimit /\ WithinBoundsMostRecentFirst

\* a query from 2025-10-01 on returned a record dated 9/29/2025
C14_Witness ==
    /\ RangeReply
    /\ reply.q.startDate = D1001
    /\ \E k \in DOMAIN reply.items :
          /\ reply.items[k].recordDate = LocalMDY(now)
          /\ reply.items[k].rawData = RoeBadDate

----------------------------------------------------------------------------
(* Claims about record dates and keys *)

\* a string of the form YYYY-MM-DD
IsCanonicalDate(d) ==
    /\ Len(d) = 10
    /\ d[5] = "-" /\ d[8] = "-"
    /\ \A i \in {1, 2, 3, 4, 6, 7, 9, 10} : IsDigit(d[i])

DatesAgree(e) == e.recordDate = e.SK /\ e.recordDate = e.GSI1SK

\* C15: every record written by saveInmate or batchSaveInmates has
\* recordDate, SK and GSI1SK equal to one another and of the form
\* YYYY-MM-DD, whatever the raw ArrestDate (absent, M/D/YYYY with or without
\* a time, ISO, or unparseable).
C15_RecordDateCanonical ==
    \A k \in DOMAIN written :
        DatesAgree(written[k]) /\ IsCanonicalDate(written[k].recordDate)

\* what holds of the code: the three always agree, and they are of the form
\* YYYY-MM-DD unless ArrestDate is a non-empty string that neither the
\* M/D/YYYY pattern nor Date reads
C15_RecordDateCanonicalUnlessUnparseable ==
    \A k \in DOMAIN written :
        /\ DatesAgree(written[k])
        /\ (~Truthy(written[k].rawData.ArrestDate)
              \/ DateFromRecord(written[k].rawData.ArrestDate))
              => IsCanonicalDate(written[k].recordDate)

\* a record whose ArrestDate is "not a date" was written with the record
\* date 9/29/2025
C15_Witness ==
    \E e \in store :
        /\ e.rawData.ArrestDate = ArrestBad
        /\ e.SK = LocalMDY(now)
        /\ ~IsCanonicalDate(e.GSI1SK)

----------------------------------------------------------------------------
(* parseArrestDate and Key.Inmate as functions of their arguments *)

\* "9/15/2025"
ArrestMDY == FirstN(ArrestMDYTime, 9)
\* "09/05/2025 23:59:59 PM"
ArrestPadded ==
    <<"0", "9", "/", "0", "5", "/", "2", "0", "2", "5", " ", "2", "3", ":",
      "5", "9", ":", "5", "9", " ", "P", "M">>
\* "12/1/20255"
ArrestLongYear == <<"1", "2", "/", "1", "/", "2", "0", "2", "5", "5">>
\* "2025-09-15T10:30:00Z"
ArrestIsoTime ==
    ArrestIso \o <<"T", "1", "0", ":", "3", "0", ":", "0", "0", "Z">>
\* "9/15" and "9-15-2025x"
ArrestShort == <<"9", "/", "1", "5">>
ArrestDashes == <<"9", "-", "1", "5", "-", "2", "0", "2", "5", "x">>

ArrestDates ==
    {Undefined, <<>>, ArrestMDYTime, ArrestMDY, ArrestOct1, ArrestPadded,
     ArrestLongYear, ArrestIso, ArrestIsoTime, ArrestBad, ArrestShort,
     ArrestDashes}

\* names that differ by case and punctuation, and names that differ more
LastNames ==
    {Undefined, <<"O", "'", "B", "r", "i", "e", "n">>,
     <<"O", "B", "R", "I", "E", "N">>, <<"J", "r", " ", "2">>}
MiddleNames ==
    {Undefined, <<>>, <<"J", ".">>, <<"j">>, <<"-">>, <<"J", "r", " ", "2">>}

KeyArgs ==
    [facilityId : {Wake}, lastName : LastNames, firstName : {<<"P", "a", "t">>},
     middleName : MiddleNames, recordDate : {ArrestIso}]
        \cup [facilityId : FacilityIds, lastName : {<<"D", "o", "e">>},
              firstName : {Undefined, <<"J", "o">>}, middleName : {Undefined},
              recordDate : {ArrestIso, D1001}]

\* parseArrestDate(arrestDate) is evaluated at the clock's value (one
\* evaluation per behaviour: it changes nothing but reply)
ParseArrestDate(arrestDate) ==
    /\ reply = None
    /\ reply' = [op |-> "parseArrestDate",
                 q |-> [arrestDate |-> arrestDate, at |-> now],
                 error |-> FALSE,
                 items |-> <<parseArrestDate(arrestDate, now)>>]
    /\ UNCHANGED <<storeVars, collectVars, inv, procVars>>

\* Key.Inmate is evaluated for two argument lists
KeyInmateTwice(a, b) ==
    /\ reply = None
    /\ reply' = [op |-> "Key.Inmate",
                 q |-> [a |-> a, b |-> b],
                 error |-> FALSE,
                 items |-> <<KeyInmate(a.facilityId, a.lastName, a.firstName,
                                       a.middleName, a.recordDate),
                             KeyInmate(b.facilityId, b.lastName, b.firstName,
                                       b.middleName, b.recordDate)>>]
    /\ UNCHANGED <<storeVars, collectVars, inv, procVars>>

InitPure == InitStore

NextPure ==
    \/ Tick
    \/ \E a \in ArrestDates : ParseArrestDate(a)
    \/ \E a, b \in KeyArgs : KeyInmateTwice(a, b)

SpecPure == InitPure /\ [][NextPure]_vars

----------------------------------------------------------------------------
(* Claims about parseArrestDate and Key.Inmate (SpecPure) *)

AllDigits(s) == \A c \in Range(s) : IsDigit(c)

\* the string begins M/D/YYYY: one or two digits, "/", one or two digits,
\* "/", four digits
BeginsMDY(s) ==
    LET parts == Split(s, "/")
    IN  /\ Len(parts) >= 3
        /\ Len(parts[1]) \in 1..2 /\ AllDigits(parts[1])
        /\ Len(parts[2]) \in 1..2 /\ AllDigits(parts[2])
        /\ Len(parts[3]) >= 4 /\ AllDigits(FirstN(parts[3], 4))

ZeroPadded(s) == IF Len(s) = 1 THEN <<"0">> \o s ELSE s

\* YYYY-MM-DD built from the digits of a string that begins M/D/YYYY
FromDigitsOf(s) ==
    LET parts == Split(s, "/")
    IN  FirstN(parts[3], 4) \o <<"-">> \o ZeroPadded(parts[1]) \o <<"-">>
            \o ZeroPadded(parts[2])

ParseReply == reply # None /\ reply.op = "parseArrestDate"

KeyReply == reply # None /\ reply.op = "Key.Inmate"

\* a name without its non-alphanumeric characters, in capitals; an absent
\* name is the empty name
Folded(name) ==
    ToUpperCase(SelectSeq(OrEmpty(name),
                          LAMBDA c : c \in Range(Upper) \cup Range(Lower)
                                         \cup Range(Digits)))

\* the two names differ at most by letter case and by non-alphanumeric
\* characters
SameButCaseAndPunctuation(x, y) == Folded(x) = Folded(y)

\* the segments of PK after "INMATE#": facility, last, first, middle
Segments(key) == Split(DropN(key.PK, Len(InmatePrefix)), "#")

\* C17: Key.Inmate returns the same {PK, SK} for two inputs with the same
\* facilityId and recordDate whose last, first and middle names differ only
\* by letter case or by non-alphanumeric characters; the three name
\* segments of PK hold only a-z and 0-9; an absent name gives an empty
\* segment.
C17_KeyIgnoresCaseAndPunctuation ==
    KeyReply =>
        LET a == reply.q.a
            b == reply.q.b
            ka == reply.items[1]
            kb == reply.items[2]
        IN  /\ (/\ a.facilityId = b.facilityId
                /\ a.recordDate = b.recordDate
                /\ SameButCaseAndPunctuation(a.lastName, b.lastName)
                /\ SameButCaseAndPunctuation(a.firstName, b.firstName)
                /\ SameButCaseAndPunctuation(a.middleName, b.middleName))
                  => ka = kb
            /\ Len(Segments(ka)) = 4
            /\ \A i \in 2..4 :
                  \A c \in Range(Segments(ka)[i]) :
                      c \in Range(Lower) \cup Range(Digits)
            /\ a.lastName = Undefined => Segments(ka)[2] = <<>>
            /\ a.firstName = Undefined => Segments(ka)[3] = <<>>
            /\ a.middleName = Undefined => Segments(ka)[4] = <<>>
            /\ ka.SK = a.recordDate

\* C17 witness: "O'Brien" with middle name "J." and "OBRIEN" with middle
\* name "j" got one key
C17_Witness ==
    /\ KeyReply
    /\ reply.q.a.lastName = <<"O", "'", "B", "r", "i", "e", "n">>
    /\ reply.q.b.lastName = <<"O", "B", "R", "I", "E", "N">>
    /\ reply.q.a.middleName = <<"J", ".">>
    /\ reply.q.b.middleName = <<"j">>
    /\ reply.items[1] = reply.items[2]

SameButMiddle(a, b) ==
    /\ a.facilityId = b.facilityId
    /\ a.lastName = b.lastName
    /\ a.firstName = b.firstName
    /\ a.recordDate = b.recordDate

\* C18 as stated: for the same facilityId, last name, first name and
\* recordDate, two inputs with differing middle names get differing keys.
C18_AsStated ==
    (/\ KeyReply
     /\ SameButMiddle(reply.q.a, reply.q.b)
     /\ reply.q.a.middleName # reply.q.b.middleName)
        => reply.items[1] # reply.items[2]

\* C18 amended: they get differing keys when the middle names differ by
\* more than letter case and non-alphanumeric characters (an absent middle
\* name counting as the empty one).
C18_MiddleNameDistinguishesKeys ==
    (/\ KeyReply
     /\ SameButMiddle(reply.q.a, reply.q.b)
     /\ ~SameButCaseAndPunctuation(reply.q.a.middleName,
                                   reply.q.b.middleName))
        => reply.items[1] # reply.items[2]

\* C18 witness: the middle names "J." and "Jr 2" gave two keys for one
\* person and day
C18_Witness ==
    /\ KeyReply
    /\ SameButMiddle(reply.q.a, reply.q.b)
    /\ reply.q.a.middleName = <<"J", ".">>
    /\ reply.q.b.middleName = <<"J", "r", " ", "2">>
    /\ reply.items[1].PK # reply.items[2].PK
    /\ reply.items[1].SK = reply.items[2].SK


----------------------------------------------------------------------------
(* Claims about what the reads return *)

\* a read that returned
Answered == reply # None /\ ~reply.error

\* every returned record is a written item without the four attributes, its
\* raw record as it was written, and the record getInmate returns for a
\* person holds a raw record written under their names
RawDataAsWritten ==
    \A k \in DOMAIN reply.items :
        /\ \E i \in DOMAIN written :
              reply.items[k] = WithoutDynamoAttributes(written[i])
        /\ reply.op = "getInmate" =>
              \A f \in {"LastName", "FirstName", "MiddleName"} :
                  SameButCaseAndPunctuation(reply.items[k].rawData[f],
                                            reply.q.inmate[f])

\* the names of the upstream fields of a raw record, at any depth
FieldNames(raw) ==
    DOMAIN raw \cup (IF "Other" \in DOMAIN raw THEN DOMAIN raw.Other ELSE {})

\* C19: round trip of the raw record: for every raw record r, with any set
\* of extra upstream fields, after saveInmate(facilityId, r) the record
\* returned by getInmate or by any query has rawData equal to r, field for
\* field.
C19_RawDataRoundTrip == Answered => RawDataAsWritten

\* what holds of the code: the same when no field of a written raw record
\* is named PK, SK, GSI1PK or GSI1SK
C19_RoundTripWithoutFieldsNamedAsKeys ==
    (/\ Answered
     /\ \A i \in DOMAIN written :
           FieldNames(written[i].rawData) \cap DYNAMO_ATTRIBUTES = {})
        => RawDataAsWritten

\* getInmate returned the record saved from Moe1 without its field PK
C19_Witness ==
    /\ Answered
    /\ reply.op = "getInmate"
    /\ reply.q.inmate = Moe1
    /\ Len(reply.items) = 1
    /\ reply.items[1].rawData = WithOther(reply.q.inmate, [InmateID |-> <<"7">>])

\* C20: no record returned to a caller by getInmate, getInmatesByFacility,
\* getInmatesByFacilityAndDateRange, getAllRecentInmates or
\* searchInmatesByLastName contains any of the storage key attributes PK,
\* SK, GSI1PK, GSI1SK.
C20_NoKeyAttributesReturned ==
    reply # None =>
        \A k \in DOMAIN reply.items :
            /\ DOMAIN reply.items[k] \cap DYNAMO_ATTRIBUTES = {}
            /\ FieldNames(reply.items[k].rawData) \cap DYNAMO_ATTRIBUTES = {}

\* getInmatesByFacility returned two records of a table whose items all
\* carry the four attributes
C20_Witness ==
    /\ Answered
    /\ reply.op = "getInmatesByFacility"
    /\ Len(reply.items) = 2
    /\ \A e \in store : DYNAMO_ATTRIBUTES \subseteq DOMAIN e


\* a getInmate call whose GetCommand was answered
GetReply == Answered /\ reply.op = "getInmate"

\* the items of the table read that were saved for the facility from a
\* record with the names asked for, up to letter case and punctuation, on
\* the record date asked for
StoredForQuery ==
    {e \in reply.table :
        /\ e.GSI1PK = FacilityPrefix \o reply.q.facilityId
        /\ e.recordDate = reply.q.recordDate
        /\ \A f \in {"LastName", "FirstName", "MiddleName"} :
              SameButCaseAndPunctuation(e.rawData[f], reply.q.inmate[f])}

\* C21: getInmate(facilityId, last, first, middle, date) returns null,
\* without raising, exactly when no record is stored under Key.Inmate of
\* those arguments; after saveInmate(facilityId, r) it returns r's stored
\* record, without its key attributes, when called with r's names (in any
\* letter case or punctuation) and r's normalised record date.
C21_GetInmateFindsStoredRecord ==
    GetReply =>
        LET key == KeyInmate(reply.q.facilityId,
                             OrEmpty(reply.q.inmate.LastName),
                             OrEmpty(reply.q.inmate.FirstName),
                             OrEmpty(reply.q.inmate.MiddleName),
                             reply.q.recordDate)
            under == {e \in reply.table : e.PK = key.PK /\ e.SK = key.SK}
        IN  /\ reply.items = <<>> <=> under = {}
            /\ Len(reply.items) <= 1
            /\ \A e \in StoredForQuery :
                  reply.items = <<removeDynamoAttributes(e)>>

\* getInmate("wake", "DOE", "jo-hn", ".", "2025-09-15") returned the record
\* saved from Doe1, and a call for a person never saved returned null
C21_Witness ==
    /\ GetReply
    /\ reply.q.inmate = DoeLoud
    /\ Len(reply.items) = 1
    /\ reply.items[1].rawData = Doe1

C21_WitnessNull ==
    /\ GetReply
    /\ reply.q.inmate = Nye
    /\ reply.table # {}
    /\ reply.items = <<>>


\* a searchInmatesByLastName call whose QueryCommand was answered
SearchReply == Answered /\ reply.op = "searchInmatesByLastName"

\* the items of the table read that were saved for the facility asked for
\* from a record whose surname begins with the one asked for, letter case
\* apart
StoredWithSurname ==
    {e \in reply.table :
        /\ e.GSI1PK = FacilityPrefix \o reply.q.facilityId
        /\ StartsWith(ToUpperCase(OrEmpty(e.rawData.LastName)),
                      ToUpperCase(reply.q.lastName))}

\* C22: searchInmatesByLastName(facilityId, surname, limit) returns the
\* records previously stored by saveInmate/batchSaveInmates under that
\* facility whose surname begins with the given surname, compared without
\* regard to letter case, in lexicographic key order and at most limit of
\* them.
C22_SearchBySurnamePrefix ==
    SearchReply =>
        \E o \in KeyOrderings(StoredWithSurname) :
            reply.items = [k \in 1..Min(reply.q.limit, Len(o)) |->
                              removeDynamoAttributes(o[k])]

\* what holds of the code: a surname with a letter in it finds nothing
C22_SearchWithLettersFindsNothing ==
    (SearchReply /\ ToUpperCase(reply.q.lastName) # ToLowerCase(reply.q.lastName))
        => reply.items = <<>>

\* a search for "mo" was answered with no record of a table that holds the
\* record saved from Moe1
C22_Witness ==
    /\ SearchReply
    /\ reply.q.lastName = <<"m", "o">>
    /\ reply.q.facilityId = Wake
    /\ \E e \in reply.table : e.rawData = Moe1
    /\ reply.items = <<>>

\* a search for the empty surname returned records
C22_WitnessReturned ==
    /\ SearchReply
    /\ Len(reply.items) = 2


----------------------------------------------------------------------------
(* Claims about a run against a source whose Total is wrong (SpecCollect) *)

\* the run has completed and its work units hold every record of the source
CompletedWithEveryRecord ==
    run.pc = "Completed" =>
        Emitted(queue, Len(queue)) = [i \in 1..source.n |-> i]

\* C30: the dual termination condition tolerates an inaccurate total:
\* against a static source that honours Take/Skip but reports a Total
\* different from its true record count (higher or lower), a run that
\* reaches Completed has emitted every source record in some WorkUnit.
C30_AsStated ==
    (source.mode = "static" /\ source.total # source.n)
        => CompletedWithEveryRecord

\* C30 as amended: the same for a Total higher than the true record count
C30_ToleratesOverReportedTotal ==
    (source.mode = "static" /\ source.total > source.n)
        => CompletedWithEveryRecord

\* what the code does for a Total lower than the true record count: the run
\* completes with the pages up to the one that reaches Total, the first
\* page at least
C30_UnderReportedTotalCutsRun ==
    (source.mode = "static" /\ source.total < source.n
        /\ run.pc = "Completed")
        => LET pages == Max(1, Ceil(source.total, run.batchSize))
           IN  Emitted(queue, Len(queue)) =
                   [i \in 1..Min(source.n, pages * run.batchSize) |-> i]

\* 3 records reported as 6, page size 2: the run completed with pages of 2
\* and 1 records
C30_Witness ==
    /\ source.mode = "static" /\ source.n = 3 /\ source.total = 6
    /\ run.batchSize = 2
    /\ run.pc = "Completed"
    /\ Len(queue) = 2
    /\ Emitted(queue, 2) = <<1, 2, 3>>


----------------------------------------------------------------------------
(* Claims about the headers of a run's requests (SpecCollect) *)

\* the jar after the first k entries of http: the cookies of the responses
\* among them, captured in order
RECURSIVE JarAfter(_)
JarAfter(k) ==
    IF k = 0 THEN <<>>
    ELSE IF http[k].kind = "response"
    THEN CaptureCookies(JarAfter(k - 1), http[k].setCookie)
    ELSE JarAfter(k - 1)

\* the name=value pairs a Cookie header lists
Listed(header) ==
    IF header = Undefined THEN {}
    ELSE {Trim(part) : part \in Range(Split(header, ";"))}

\* C27: every POST page request issued by a run carries a Cookie header
\* listing all cookies accumulated so far in that run and an X-Xsrf-Token
\* header equal to the jar's current XSRF-TOKEN value (so a token rotated by
\* a response is the one used on the next request), plus Origin and Referer
\* derived from the base URL; GET requests never carry X-Xsrf-Token.
C27_PostCarriesCookiesAndToken ==
    \A k \in DOMAIN http :
        LET jar == JarAfter(k - 1)
            headers == http[k].headers
        IN  /\ (http[k].kind = "request" /\ http[k].method = "POST") =>
                  /\ jar # <<>>
                  /\ Listed(headers.Cookie) =
                        {jar[i][1] \o <<"=">> \o jar[i][2] : i \in DOMAIN jar}
                  /\ getXsrfToken(jar) # Undefined
                  /\ headers.XXsrfToken = getXsrfToken(jar)
                  /\ headers.Origin /\ headers.Referer
            /\ (http[k].kind = "request" /\ http[k].method = "GET") =>
                  /\ headers.XXsrfToken = Undefined
                  /\ ~headers.Origin /\ ~headers.Referer

\* the session gave token t1 and cookie sid, the first page's response
\* rotated the token to t2, and the second page request carried sid and t2
C27_Witness ==
    \E j, k \in DOMAIN http :
        /\ j < k
        /\ http[j].kind = "request" /\ http[j].method = "POST"
        /\ http[j].headers.XXsrfToken = <<"t", "1">>
        /\ http[k].kind = "request" /\ http[k].method = "POST"
        /\ http[k].headers.XXsrfToken = <<"t", "2">>
        /\ <<"s", "i", "d", "=", "s", "1">> \in Listed(http[k].headers.Cookie)
        /\ XsrfName \o <<"=", "t", "2">> \in Listed(http[k].headers.Cookie)


----------------------------------------------------------------------------
(* The cookie jar under any sequence of responses *)

MaxResponses == 3

\* "sid=s2"
CookieSid2 == <<"s", "i", "d", "=", "s", "2">>
\* "XSRF-TOKEN=a==; path=/": a token that ends in padding
CookiePadded ==
    XsrfName \o <<"=", "a", "=", "=", ";", " ", "p", "a", "t", "h", "=", "/">>
\* "sid=; Max-Age=0": the cookie is cleared
CookieCleared ==
    <<"s", "i", "d", "=", ";", " ", "M", "a", "x", "-", "A", "g", "e", "=", "0">>

\* the Set-Cookie header lists of the responses
JarSetCookies ==
    {<<>>, <<CookieSid>>, <<CookieSid2>>, <<CookieToken1>>, <<CookieToken2>>,
     <<CookiePadded>>, <<CookieCleared>>,
     <<CookieSid, CookieToken1>>, <<CookieSid, CookieSid2>>}

\* a response, successful or not, passes the response interceptor (lines
\* 109-126)
ResponseIntercepted(ok, setCookieHeader) ==
    /\ Len(http) < MaxResponses
    /\ cookieJar' = CaptureCookies(cookieJar, setCookieHeader)
    /\ http' = Append(http, Response(ok, setCookieHeader, None))
    /\ UNCHANGED <<run, source, queue, storeVars, inv, reply, procVars>>

InitJar == InitStore

NextJar ==
    \E ok \in BOOLEAN, setCookieHeader \in JarSetCookies :
        ResponseIntercepted(ok, setCookieHeader)

SpecJar == InitJar /\ [][NextJar]_vars

\* the cookie a Set-Cookie header carries: the name before the first "=" of
\* its first part and the value after it
CarriedCookie(cookieString) ==
    LET first == Trim(Head(Split(cookieString, ";")))
        eq == IF \E k \in DOMAIN first : first[k] = "="
              THEN CHOOSE k \in DOMAIN first :
                       first[k] = "=" /\ \A j \in 1..(k - 1) : first[j] # "="
              ELSE Len(first) + 1
    IN  [name |-> SubSeq(first, 1, eq - 1), value |-> DropN(first, eq)]

\* the Set-Cookie headers received so far, oldest first
RECURSIVE Flatten(_)
Flatten(lists) ==
    IF lists = <<>> THEN <<>> ELSE Head(lists) \o Flatten(Tail(lists))
SetCookiesSoFar == Flatten([k \in DOMAIN http |-> http[k].setCookie])

\* the value carried by the most recent header that named the cookie
LastCarried(name) ==
    LET headers == SetCookiesSoFar
        last == CHOOSE k \in DOMAIN headers :
                    /\ CarriedCookie(headers[k]).name = name
                    /\ \A j \in DOMAIN headers :
                          CarriedCookie(headers[j]).name = name => j <= k
    IN  CarriedCookie(headers[last]).value

NamesCarried == {CarriedCookie(h).name : h \in Range(SetCookiesSoFar)}

\* C28: after any sequence of responses (successful or error responses) in
\* a run, for each cookie name the jar holds exactly the value carried by
\* the most recent Set-Cookie header that named it: last write wins per
\* name.
C28_JarHoldsLastCarriedValue ==
    \A name \in NamesCarried : getCookie(cookieJar, name) = LastCarried(name)

\* no "=" in s
NoEquals(s) == \A k \in DOMAIN s : s[k] # "="

\* what holds of the code: last write wins when every carried value is not
\* empty and holds no "="
C28_LastWriteWinsForPlainValues ==
    (\A h \in Range(SetCookiesSoFar) :
        /\ CarriedCookie(h).value # <<>>
        /\ NoEquals(CarriedCookie(h).value))
        => \A name \in NamesCarried :
              getCookie(cookieJar, name) = LastCarried(name)

\* the last response carried XSRF-TOKEN=a== after an earlier token, and the
\* jar holds "a"
C28_Witness ==
    /\ Len(http) >= 2
    /\ http[1].setCookie = <<CookieToken1>>
    /\ http[Len(http)].setCookie = <<CookiePadded>>
    /\ getXsrfToken(cookieJar) = <<"a">>

\* sid was set to s1 and then to s2 by an error response: the jar holds s2
C28_WitnessLastWins ==
    /\ Len(http) = 2
    /\ http[1].setCookie = <<CookieSid>>
    /\ http[2].setCookie = <<CookieSid2>> /\ ~http[2].ok
    /\ getCookie(cookieJar, <<"s", "i", "d">>) = <<"s", "2">>


----------------------------------------------------------------------------
(* FacilityMapping *)

\* parseInt(s, 10): leading blanks and one sign are skipped, the digits
\* that follow are read, and a string without them gives NaN
ParseInt(s) ==
    LET t == Trim(s)
        signed == t # <<>> /\ Head(t) \in {"-", "+"}
        digits == DigitPrefix(IF signed THEN Tail(t) ELSE t)
    IN  IF digits = <<>> THEN JsNaN
        ELSE IF signed /\ Head(t) = "-" THEN JsNumber(-DigitsToNum(digits))
        ELSE JsNumber(DigitsToNum(digits))

\* apiId > 0 and apiId === 0
GreaterThanZero(v) == v.type = "number" /\ v.n > 0
StrictlyZero(v) == v.type = "number" /\ v.n = 0

\* what ssmClient.send(GetParameterCommand) settles with: it rejects, or it
\* resolves with Parameter.Value (Undefined when the value is absent)
SsmRejects == [ok |-> FALSE, value |-> Undefined]
SsmValue(v) == [ok |-> TRUE, value |-> v]

\* API_ID_TO_NAME[apiId] = facilityName, the object kept as a set of
\* <<apiId, name>> entries
IdToNameSet(map, apiId, name) ==
    {e \in map : e[1] # apiId} \cup {<<apiId, name>>}

\* one turn of the loop of loadApiIds (lines 92-124) for facility `name`
\* whose GetParameterCommand settled with `answer`
LoadOne(m, name, answer) ==
    IF ~answer.ok
    THEN [m EXCEPT !.reads = @ + 1]
    ELSE LET apiId == IF Truthy(answer.value)
                      THEN ParseInt(answer.value) ELSE JsNumber(0)
         IN  [m EXCEPT !.reads = @ + 1,
                       !.apiId[name] = apiId,
                       !.API_ID_TO_NAME =
                           IF GreaterThanZero(apiId)
                           THEN IdToNameSet(@, apiId.n, name) ELSE @]

RECURSIVE LoadLoop(_, _, _)
LoadLoop(m, names, answers) ==
    IF names = <<>> THEN m
    ELSE LoadLoop(LoadOne(m, Head(names), answers[Head(names)]),
                  Tail(names), answers)

loadApiIdsEveryTime(m, answers) ==
    [LoadLoop(m, BASE_FACILITY_MAPPING, answers) EXCEPT !.loaded = TRUE]

\* FacilityApiLoader.loadApiIds, the parameter store answering facility
\* `name` with answers[name]
loadApiIds(m, answers) ==
    IF m.loaded THEN m
    ELSE [LoadLoop(m, BASE_FACILITY_MAPPING, answers) EXCEPT !.loaded = TRUE]

\* the lower-case names that every object inherits from Object.prototype
Constructor == <<"c", "o", "n", "s", "t", "r", "u", "c", "t", "o", "r">>
ObjectPrototypeKeys == {Constructor, <<"_", "_", "p", "r", "o", "t", "o", "_", "_">>}

\* FacilityMapper.getFacilityByName: FACILITY_MAPPING[name.toLowerCase()]
\* || null.  FACILITY_MAPPING is an ordinary object, so a name of
\* Object.prototype finds the inherited value, which is truthy and has no
\* apiId.
getFacilityByName(m, name) ==
    LET key == ToLowerCase(name)
    IN  IF key \in DOMAIN m.apiId
        THEN [name |-> key, apiId |-> m.apiId[key]]
        ELSE IF key \in ObjectPrototypeKeys
        THEN [name |-> key, apiId |-> JsUndefined]
        ELSE None

\* FacilityMapper.getActiveFacilities: the names with apiId > 0
getActiveFacilities(m) ==
    {name \in DOMAIN m.apiId : GreaterThanZero(m.apiId[name])}

\* DataCollectionService.initializeFacility: the error it throws, or "" and
\* the facilityApiId it sets
initializeFacility(m, facilityName) ==
    LET facilityConfig == getFacilityByName(m, facilityName)
    IN  IF facilityConfig = None
        THEN [error |-> "Unknown facility", facilityApiId |-> JsNumber(0)]
        ELSE IF StrictlyZero(facilityConfig.apiId)
        THEN [error |-> "no configured API ID", facilityApiId |-> JsNumber(0)]
        ELSE [error |-> "", facilityApiId |-> facilityConfig.apiId]


----------------------------------------------------------------------------
(* The handlers collect and collectScheduled in one Lambda process *)

MaxInvocations == 2
HandlerBatchSize == 100

\* "https://x"
BaseUrl == <<"h", "t", "t", "p", "s", ":", "/", "/", "x">>

\* Parameter values of /jaildata/facilities/{name}/api-id
\* "384", "0", "-5", "abc"
ApiIdValues ==
    {<<"3", "8", "4">>, <<"0">>, <<"-", "5">>, <<"a", "b", "c">>}
ApiIdAnswers ==
    {SsmRejects, SsmValue(Undefined)} \cup {SsmValue(v) : v \in ApiIdValues}
BaseUrlAnswers == {SsmRejects, SsmValue(Undefined), SsmValue(BaseUrl)}

\* facilityId of an event: absent, the configured facility in lower case and
\* with a capital, a facility that is not configured, and a name every
\* object has
\* "Buncombe"
BuncombeCapital == <<"B", "u", "n", "c", "o", "m", "b", "e">>
EventFacilityIds == {Undefined, Buncombe, BuncombeCapital, Wake, Constructor}

\* the upstream of the process's runs: one record, reported as one
ProcSource == [mode |-> "static", n |-> 1, total |-> 1]

\* Set-Cookie header lists of the responses to service i: "XSRF-TOKEN=ria"
\* on the GET and "XSRF-TOKEN=rib" on a POST
ServiceCookie(i, c) == XsrfName \o <<"=", "r">> \o NumToString(i) \o <<c>>
ServiceGetSetCookies(i) == {<<>>, <<ServiceCookie(i, "a")>>}
ServicePostSetCookies(i) == {<<>>, <<ServiceCookie(i, "b")>>}

\* new DataCollectionService(facilityId, baseUrl, 100) after
\* initializeFacility(): its run, its own CookieJar and the requests of its
\* own axios instance
NewService(facilityName, facilityApiId) ==
    [run |-> NewRun(facilityName, facilityApiId, HandlerBatchSize),
     jar |-> <<>>,
     http |-> <<>>]

ServiceJarOfProcess(svcs, i) == svcs[1].jar

\* this.cookieJar of service i
ServiceJar(svcs, i) == svcs[i].jar

\* what the handler returns (a status code) or how its promise settles
ErrorOutcome(kind) == IF kind = "collect" THEN "500" ELSE "rejected"

Handled(h, outcome, error, baseUrl, service) ==
    [kind |-> h.kind, facilityId |-> h.facilityId, outcome |-> outcome,
     error |-> error, baseUrl |-> baseUrl, service |-> service]

\* the handler is invoked with an event
HandlerInvoked(kind, facilityId, malformed) ==
    /\ handler = None
    /\ Len(handled) < MaxInvocations
    /\ handler' = [kind |-> kind, facilityId |-> facilityId,
                   malformed |-> malformed, pc |-> "loadApiIds", service |-> 0]
    /\ UNCHANGED <<mapping, services, handled, loaders, storeVars, collectVars, inv,
                   reply>>

\* await FacilityMapper.loadApiIds() (lines 295, 366)
HandlerLoadApiIds ==
    /\ handler # None /\ handler.pc = "loadApiIds"
    /\ \E answers \in [Range(BASE_FACILITY_MAPPING) -> ApiIdAnswers] :
          mapping' = loadApiIds(mapping, answers)
    /\ handler' = [handler EXCEPT !.pc = "configure"]
    /\ UNCHANGED <<services, handled, loaders, storeVars, collectVars, inv, reply>>

AwaitsAlways(kind) == TRUE

\* whether the handler awaits collectAllInmates: collectScheduled does
\* (line 397), collect attaches a catch and goes on (lines 329-334)
Awaits(kind) == kind = "collectScheduled"

\* lines 297-326 and 369-395: the body is parsed, facilityId is required,
\* the base URL is read and the service is made and initialized.  The
\* error that ends the handler, or "" when collectAllInmates is called.
Configure(h, baseUrl, m) ==
    IF h.kind = "collect" /\ h.malformed
    THEN [outcome |-> "500", error |-> "malformed body", baseUrl |-> "not read"]
    ELSE IF h.facilityId = Undefined
    THEN [outcome |-> IF h.kind = "collect" THEN "400" ELSE "rejected",
          error |-> "facilityId is required", baseUrl |-> "not read"]
    ELSE IF ~baseUrl.ok
    THEN [outcome |-> ErrorOutcome(h.kind), error |-> "SSM error",
          baseUrl |-> "rejects"]
    ELSE IF ~Truthy(baseUrl.value)
    THEN [outcome |-> ErrorOutcome(h.kind), error |-> "Base URL not configured",
          baseUrl |-> "no value"]
    ELSE IF initializeFacility(m, h.facilityId).error # ""
    THEN [outcome |-> ErrorOutcome(h.kind),
          error |-> initializeFacility(m, h.facilityId).error,
          baseUrl |-> "value"]
    ELSE [outcome |-> "", error |-> "", baseUrl |-> "value"]

\* The handler after loadApiIds, up to its return or to its await of the
\* run.  A service whose initializeFacility threw is dropped unused.
HandlerConfigure ==
    /\ handler # None /\ handler.pc = "configure"
    /\ \E baseUrl \in BaseUrlAnswers :
        LET c == Configure(handler, baseUrl, mapping)
            i == Len(services) + 1
        IN  IF c.outcome # ""
            THEN /\ handled' = Append(handled, Handled(handler, c.outcome,
                                                       c.error, c.baseUrl, 0))
                 /\ handler' = None
                 /\ UNCHANGED services
            ELSE /\ services' = Append(services,
                        NewService(handler.facilityId,
                                   initializeFacility(mapping,
                                       handler.facilityId).facilityApiId))
                 /\ IF Awaits(handler.kind)
                    THEN /\ handler' = [handler EXCEPT !.pc = "awaitRun",
                                                       !.service = i]
                         /\ UNCHANGED handled
                    ELSE /\ handled' = Append(handled,
                                Handled(handler, "202", "", c.baseUrl, i))
                         /\ handler' = None
    /\ UNCHANGED <<mapping, loaders, storeVars, collectVars, inv, reply>>

\* how an awaited run ends the handler
AwaitedOutcome(kind, r) ==
    IF r.pc = "Completed"
    THEN [outcome |-> IF kind = "collect" THEN "202" ELSE "resolved",
          error |-> ""]
    ELSE [outcome |-> ErrorOutcome(kind), error |-> r.error.what]

\* await service.collectAllInmates() settles (lines 397-408)
HandlerRunSettled ==
    /\ handler # None /\ handler.pc = "awaitRun"
    /\ services[handler.service].run.pc \in {"Completed", "Failed"}
    /\ LET a == AwaitedOutcome(handler.kind, services[handler.service].run)
       IN  handled' = Append(handled, Handled(handler, a.outcome, a.error,
                                              "value", handler.service))
    /\ handler' = None
    /\ UNCHANGED <<mapping, services, loaders, storeVars, collectVars, inv, reply>>

\* The steps of collectAllInmates of service i, as in a single run
ServiceStep(i, r, jar, entries) ==
    services' = [services EXCEPT ![i] =
                    [run |-> r, jar |-> jar, http |-> @.http \o entries]]

ServiceSessionGet(i) ==
    /\ services[i].run.pc = "Uninitialized"
    /\ ServiceStep(i, [services[i].run EXCEPT !.pc = "AwaitGet"],
                   services[i].jar,
                   <<Request("GET", ServiceJar(services, i),
                             services[i].run.facilityApiId, None)>>)
    /\ UNCHANGED <<mapping, handler, handled, loaders, storeVars, collectVars, inv,
                   reply>>

ServiceSessionGetSettled(i) ==
    /\ services[i].run.pc = "AwaitGet"
    /\ \E ok \in BOOLEAN, setCookieHeader \in ServiceGetSetCookies(i) :
        LET jar == CaptureCookies(ServiceJar(services, i), setCookieHeader)
        IN  ServiceStep(i, SessionOutcome(services[i].run, ok, jar), jar,
                        <<Response(ok, setCookieHeader, None)>>)
    /\ UNCHANGED <<mapping, handler, handled, loaders, storeVars, collectVars, inv,
                   reply>>

ServicePagePost(i) ==
    /\ services[i].run.pc \in {"SessionEstablished", "Paging"}
    /\ ServiceStep(i, [services[i].run EXCEPT !.pc = "AwaitPost"],
                   services[i].jar,
                   <<Request("POST", ServiceJar(services, i),
                             services[i].run.facilityApiId,
                             RequestBody(services[i].run))>>)
    /\ UNCHANGED <<mapping, handler, handled, loaders, storeVars, collectVars, inv,
                   reply>>

ServicePagePostSettled(i) ==
    /\ services[i].run.pc = "AwaitPost"
    /\ LET r == services[i].run
           req == services[i].http[Len(services[i].http)]
       IN  \E ok \in BOOLEAN, setCookieHeader \in ServicePostSetCookies(i),
              batch \in Responses(ProcSource, req.body.Take, req.body.Skip) :
            LET jar == CaptureCookies(ServiceJar(services, i), setCookieHeader)
                totalRecords == IF r.totalRecords = Null
                                THEN <<batch.Total>> ELSE r.totalRecords
            IN  IF ~ok
                THEN ServiceStep(i, Fail(r, "post"), jar,
                                 <<Response(FALSE, setCookieHeader, None)>>)
                ELSE ServiceStep(i,
                        [r EXCEPT !.pc = "AwaitEnqueue",
                                  !.totalRecords = totalRecords,
                                  !.batch = batch,
                                  !.fetched = Append(@, batch)],
                        jar,
                        <<Response(TRUE, setCookieHeader, batch),
                          SendMessage(BatchMessage(r, batch, totalRecords))>>)
    /\ UNCHANGED <<mapping, handler, handled, loaders, storeVars, collectVars, inv,
                   reply>>

ServiceEnqueueSettled(i) ==
    /\ services[i].run.pc = "AwaitEnqueue"
    /\ \E ok \in BOOLEAN :
        IF ~ok
        THEN /\ ServiceStep(i, Fail(services[i].run, "enqueue"),
                            services[i].jar, <<Response(FALSE, <<>>, None)>>)
             /\ UNCHANGED queue
        ELSE /\ ServiceStep(i, AfterEnqueue(services[i].run),
                            services[i].jar, <<Response(TRUE, <<>>, None)>>)
             /\ queue' = Enqueued(queue,
                             services[i].http[Len(services[i].http)].body)
    /\ UNCHANGED <<mapping, handler, handled, loaders, storeVars, run, source,
                   cookieJar, http, inv, reply>>

InitProcess == InitStore

NextProcess ==
    \/ \E kind \in {"collect", "collectScheduled"},
          facilityId \in EventFacilityIds, malformed \in BOOLEAN :
            /\ malformed => kind = "collect"   \* event.body is collect's
            /\ HandlerInvoked(kind, facilityId, malformed)
    \/ HandlerLoadApiIds
    \/ HandlerConfigure
    \/ HandlerRunSettled
    \/ \E i \in DOMAIN services :
          \/ ServiceSessionGet(i)
          \/ ServiceSessionGetSettled(i)
          \/ ServicePagePost(i)
          \/ ServicePagePostSettled(i)
          \/ ServiceEnqueueSettled(i)

SpecProcess == InitProcess /\ [][NextProcess]_vars


----------------------------------------------------------------------------
(* Claims about the handlers (SpecProcess) *)

\* the facility name is not one of the configured facilities
UnknownFacility(facilityId) ==
    ToLowerCase(facilityId) \notin Range(BASE_FACILITY_MAPPING)

\* the facility is configured and its numeric id is 0
IdUnset(facilityId) ==
    /\ ~UnknownFacility(facilityId)
    /\ StrictlyZero(mapping.apiId[ToLowerCase(facilityId)])

\* the requests service i has issued to the upstream source
UpstreamRequests(i) ==
    SelectSeq(services[i].http,
              LAMBDA e : e.kind = "request" /\ e.method \in {"GET", "POST"})

\* invocation h was abandoned with an error and made no service, so that
\* no request was issued and no work unit enqueued for it
Abandoned(h) == h.outcome = ErrorOutcome(h.kind) /\ h.service = 0

\* C23: in both collect and collectScheduled, when the facility name is
\* unknown, the facility's numeric id is unset (0), or the base URL
\* parameter is missing, the run is abandoned with an error to the caller
\* (HTTP 500 from collect, a thrown error from collectScheduled) before any
\* request to the upstream source is issued and before any WorkUnit is
\* enqueued, and nothing is retried.
C23_ConfigurationErrorAbandonsRun ==
    /\ \A k \in DOMAIN handled :
          (/\ handled[k].facilityId # Undefined
           /\ \/ UnknownFacility(handled[k].facilityId)
              \/ IdUnset(handled[k].facilityId)
              \/ handled[k].baseUrl \in {"rejects", "no value"})
              => Abandoned(handled[k])
    /\ (handler # None /\ handler.pc = "awaitRun") =>
          /\ ~UnknownFacility(handler.facilityId)
          /\ ~IdUnset(handler.facilityId)

\* what holds of the code: the same for facility names that are not names
\* of Object.prototype
C23_AbandonedUnlessInheritedName ==
    /\ \A k \in DOMAIN handled :
          (/\ handled[k].facilityId # Undefined
           /\ ToLowerCase(handled[k].facilityId) \notin ObjectPrototypeKeys
           /\ \/ UnknownFacility(handled[k].facilityId)
              \/ IdUnset(handled[k].facilityId)
              \/ handled[k].baseUrl \in {"rejects", "no value"})
              => Abandoned(handled[k])
    /\ (/\ handler # None /\ handler.pc = "awaitRun"
        /\ ToLowerCase(handler.facilityId) \notin ObjectPrototypeKeys) =>
          /\ ~UnknownFacility(handler.facilityId)
          /\ ~IdUnset(handler.facilityId)

\* collect answered 202 for the facility "constructor", and the run it
\* started has sent its GET
C23_Witness ==
    \E k \in DOMAIN handled :
        /\ handled[k].kind = "collect"
        /\ handled[k].facilityId = Constructor
        /\ handled[k].outcome = "202"
        /\ handled[k].service # 0
        /\ Len(UpstreamRequests(handled[k].service)) >= 1
        /\ services[handled[k].service].run.facilityApiId = JsUndefined

\* C24: a collection run issues requests to the upstream source only for a
\* facility whose numeric id was loaded from the parameter store as a
\* positive integer, i.e. a facility that getActiveFacilities lists; for
\* every other facility (id never loaded, load failed, or parameter value
\* not a positive integer) the run fails before any upstream request.
C24_RequestsOnlyForActiveFacilities ==
    /\ \A i \in DOMAIN services :
          UpstreamRequests(i) # <<>> =>
              /\ ToLowerCase(services[i].run.facilityId)
                    \in getActiveFacilities(mapping)
              /\ GreaterThanZero(services[i].run.facilityApiId)
    /\ \A k \in DOMAIN handled :
          (/\ handled[k].facilityId # Undefined
           /\ handled[k].baseUrl = "value"
           /\ ToLowerCase(handled[k].facilityId)
                 \notin getActiveFacilities(mapping))
              => Abandoned(handled[k])

\* what holds of the code: requests are issued only with an id that is not 0
C24_RequestsOnlyWithIdOtherThanZero ==
    \A i \in DOMAIN services : ~StrictlyZero(services[i].run.facilityApiId)

\* the parameter of buncombe read "-5", no facility is active, and a run
\* for buncombe has sent its GET to /api/inmates/-5
C24_Witness ==
    /\ mapping.apiId[Buncombe] = JsNumber(-5)
    /\ getActiveFacilities(mapping) = {}
    /\ \E i \in DOMAIN services :
          /\ services[i].run.facilityId = Buncombe
          /\ Len(UpstreamRequests(i)) >= 1
          /\ UpstreamRequests(i)[1].url = JsNumber(-5)

\* C25: once one loadApiIds call has completed, every later loadApiIds call
\* in the same process performs no parameter-store read and leaves
\* FACILITY_MAPPING and API_ID_TO_NAME unchanged, including when the first
\* call failed to load some facility's id (that id then stays 0 for the
\* life of the process).
C25_LoadedOnce == [][mapping.loaded => mapping' = mapping]_vars

\* the first call found no id for buncombe, and the second invocation's
\* call has returned: one read was made and the id is 0
C25_Witness ==
    /\ Len(handled) = 1
    /\ handler # None /\ handler.pc = "configure"
    /\ mapping.loaded
    /\ mapping.reads = 1
    /\ mapping.apiId[Buncombe] = JsNumber(0)

\* C26: collect returns 202 "Data collection started" as soon as the
\* facility and base-URL configuration are validated, without awaiting
\* collectAllInmates; any later failure of that background collection
\* (session, page request or enqueue) is reported only to the alert service
\* and never changes the response or raises to the original caller.
C26_CollectAnswersBeforeTheRun ==
    [][/\ \A k \in DOMAIN handled :
             k \in DOMAIN handled' /\ handled'[k] = handled[k]
       /\ (/\ Len(handled') > Len(handled)
           /\ handled'[Len(handled')].kind = "collect") =>
             LET h == handled'[Len(handled')]
             IN  /\ h.outcome \in {"202", "400", "500"}
                 /\ h.outcome = "202" <=> Len(services') = Len(services) + 1
                 /\ h.outcome = "202" =>
                       /\ h.service = Len(services')
                       /\ services'[h.service].run.pc = "Uninitialized"
                       /\ services'[h.service].http = <<>>]_vars

\* collect answered 202 and the run it started failed afterwards, at its
\* page request
C26_Witness ==
    \E k \in DOMAIN handled :
        /\ handled[k].kind = "collect"
        /\ handled[k].outcome = "202"
        /\ services[handled[k].service].run.pc = "Failed"
        /\ services[handled[k].service].run.error.what = "post"
        /\ handler = None

\* the name=value cookies carried by the responses among the first k
\* entries of the requests and responses of service i
CarriedTo(i, k) ==
    UNION {{CarriedCookie(c).name \o <<"=">> \o CarriedCookie(c).value :
               c \in Range(services[i].http[j].setCookie)} :
           j \in {j \in 1..k : services[i].http[j].kind = "response"}}

\* C29: session state is private to one run: in any sequence or
\* interleaving of collection runs in one process, no cookie or XSRF token
\* received in one run's responses is ever attached to a request issued by
\* another run, and a new run starts with an empty cookie jar.
C29_SessionPrivateToRun ==
    \A i \in DOMAIN services :
        /\ services[i].http = <<>> => services[i].jar = <<>>
        /\ \A k \in DOMAIN services[i].http :
              LET e == services[i].http[k]
              IN  (e.kind = "request" /\ e.method \in {"GET", "POST"}) =>
                      /\ Listed(e.headers.Cookie) \subseteq CarriedTo(i, k - 1)
                      /\ e.headers.XXsrfToken # Undefined =>
                            XsrfName \o <<"=">> \o e.headers.XXsrfToken
                                \in CarriedTo(i, k - 1)

\* two runs are waiting for their page at once, each having sent its own
\* token
C29_Witness ==
    /\ Len(services) = 2
    /\ \A i \in 1..2 :
          /\ services[i].run.pc = "AwaitPost"
          /\ services[i].http[Len(services[i].http)].headers.XXsrfToken
                = <<"r">> \o NumToString(i) \o <<"a">>

----------------------------------------------------------------------------
(* Claims about paging offsets and work-unit numbering (SpecCollect) *)

\* the pages that answered the page requests so far, in order
PagesReturned ==
    SelectSeq(http, LAMBDA e : e.kind = "response" /\ e.ok /\ e.data # None)

\* C32: in every run the n-th page request carries Take = pageSize and
\* Skip = (n-1) * pageSize, and the work unit emitted for the n-th page
\* carries that page and batchNumber = n, whatever the lengths of the pages
\* returned so far.
C32_OffsetAdvancesByPageSize ==
    /\ \A n \in 1..NumPosts :
          Requests("POST")[n].body =
              [Take |-> run.batchSize, Skip |-> (n - 1) * run.batchSize]
    /\ \A n \in 1..NumSends :
          /\ Requests("SendMessage")[n].body.batchNumber = n
          /\ Requests("SendMessage")[n].body.batch = PagesReturned[n].data
    /\ \A n \in 1..Len(queue) : queue[n].batchNumber = n

\* the first page held more records than asked for, the second fewer, and a
\* third page was requested and emitted
C32_Witness ==
    /\ run.batchSize = 2
    /\ NumPosts = 3 /\ Len(queue) = 3
    /\ Len(queue[1].batch.Inmates) = 3
    /\ Len(queue[2].batch.Inmates) = 2
    /\ Requests("POST")[3].body.Skip = 4

\* Math.ceil(first-page Total / pageSize)
TotalBatchesOf(message) == Ceil(run.fetched[1].Total, run.batchSize)

SameRunFields(message) ==
    /\ message.totalBatches = TotalBatchesOf(message)
    /\ message.requestId = run.requestId
    /\ message.totalBatches = queue[1].totalBatches
    /\ message.requestId = queue[1].requestId

\* C37 as stated: every work unit of a run has 1 <= batchNumber <=
\* totalBatches, with totalBatches = ceil(first-page Total / pageSize) and
\* requestId the same in every work unit of the run.
C37_AsStated ==
    \A n \in 1..Len(queue) :
        /\ SameRunFields(queue[n])
        /\ 1 <= queue[n].batchNumber
        /\ queue[n].batchNumber <= queue[n].totalBatches

\* C37 amended: the same, with batchNumber <= totalBatches for the runs whose
\* first page reported a Total of at least 1; a first page that reports no
\* record is emitted as work unit 1 with a totalBatches of 0 or less.
C37_NumberWithinTotalWhenTotalPositive ==
    \A n \in 1..Len(queue) :
        /\ SameRunFields(queue[n])
        /\ 1 <= queue[n].batchNumber
        /\ run.fetched[1].Total >= 1
              => queue[n].batchNumber <= queue[n].totalBatches
        /\ run.fetched[1].Total < 1
              => queue[n].batchNumber = 1 /\ queue[n].totalBatches <= 0

\* a run emitted its last work unit, numbered totalBatches = 3
C37_Witness ==
    /\ run.pc = "Completed"
    /\ Len(queue) = 3
    /\ queue[3].batchNumber = 3 /\ queue[3].totalBatches = 3
    /\ queue[1].totalBatches = 3

\* an empty roster: the one work unit is number 1 of 0
C37_WitnessEmpty ==
    /\ run.pc = "Completed"
    /\ Len(queue) = 1
    /\ queue[1].batch.Inmates = <<>>
    /\ queue[1].batchNumber = 1 /\ queue[1].totalBatches = 0

----------------------------------------------------------------------------
(* Claims about failures within one invocation (SpecIngest) *)

\* batchSaveInmates is entered by the call of record k in this step
SaveCalled(k) ==
    /\ calls'[k] # calls[k]
    /\ calls'[k].sent = <<>>
    /\ calls'[k].status \in {"running", "fulfilled"}

\* C33: processBatch returns normally for every combination of malformed
\* records and storage failures among its records, and batchSaveInmates is
\* called at most once per record: the step that calls it finds no earlier
\* call of that record, and a record that was rejected stays rejected with
\* its call untouched until the invocation ends.
C33_ReturnsNormallyNoSecondAttempt ==
    [][/\ inv # None =>
            /\ inv' # None
            /\ inv'.outcome \in {"running", "returned"}
            /\ \A k \in DOMAIN inv.units :
                  inv.units[k] = "rejected" =>
                      inv'.units[k] = "rejected" /\ calls'[k] = calls[k]
       /\ \A k \in 1..MaxUnits :
            SaveCalled(k) =>
                /\ calls[k] = IdleCall
                /\ inv.units[k] = "validated"
                /\ inv'.units[k] = "saving"]_vars

\* an invocation that held a malformed record and a record whose write the
\* storage rejected has returned
C33_Witness ==
    /\ Ended /\ inv.outcome = "returned"
    /\ \E j \in MalformedUnits, k \in ValidUnits :
          /\ inv.units[j] = "rejected"
          /\ inv.units[k] = "rejected"
          /\ calls[k].status = "rejected"
          /\ Len(calls[k].sent) = 1

----------------------------------------------------------------------------
(* The queue feeding processBatch: deliveries and acknowledgements *)

\* the messages a collection run left in the queue, oldest first
ConsumeQueues ==
    UNION {[1..n -> ValidBodies \cup {NotJson}] : n \in 1..MaxUnits}

\* messages k.. of q without those at the positions in `deleted`
RECURSIVE RemainingFrom(_, _, _)
RemainingFrom(q, deleted, k) ==
    IF k > Len(q) THEN <<>>
    ELSE (IF k \in deleted THEN <<>> ELSE <<q[k]>>)
             \o RemainingFrom(q, deleted, k + 1)

\* The Lambda service takes the oldest n messages of the queue and calls
\* processBatch with them as event.Records.
Receive(n) ==
    /\ n \in 1..Len(queue)
    /\ Invoke(SubSeq(queue, 1, n))

\* processBatch has ended.  The Lambda service deletes from the queue the
\* messages of an event whose invocation returned, and leaves those of an
\* invocation that threw to be delivered again.
Acknowledge ==
    /\ inv # None /\ inv.outcome # "running"
    /\ queue' = RemainingFrom(queue, inv.deleted, 1)
    /\ inv' = None
    /\ calls' = [c \in CallIds |-> IdleCall]
    /\ UNCHANGED <<now, store, written, ops, saveHist, run, source, cookieJar,
                   http, reply, procVars>>

InitConsume ==
    /\ StoreInit /\ IngestIdle /\ ReadIdle /\ ProcIdle
    /\ run = None /\ source = None /\ cookieJar = <<>> /\ http = <<>>
    /\ queue \in ConsumeQueues

NextConsume ==
    \/ \E n \in 1..MaxUnits : Receive(n)
    \/ \E k \in 1..MaxUnits : UnitSave(k)
    \/ \E k \in 1..MaxUnits : BatchWriteSend(k)
    \/ \E k \in 1..MaxUnits : BatchWritePut(k)
    \/ \E k \in 1..MaxUnits : UnitSettled(k)
    \/ ProcessBatchEnds
    \/ Acknowledge

SpecConsume == InitConsume /\ [][NextConsume]_vars

\* BatchWriteItem accepts the whole request of call k
WriteAccepted(k) ==
    /\ calls[k].status = "running"
    /\ calls'[k].status = "writing"
    /\ Len(calls'[k].pending) = Len(Chunk(calls[k].inmates, calls[k].i))

\* The queue goes on delivering what it holds, every call and every
\* invocation that can settle does (weak fairness of each step), and storage
\* failures are transient: a write that is sent again and again is accepted
\* in the end (strong fairness of the accepted write, written with its
\* enabling condition, a call that is running, spelled out).
SpecConsumeFair ==
    /\ SpecConsume
    /\ WF_vars(\E n \in 1..MaxUnits : Receive(n))
    /\ WF_vars(ProcessBatchEnds)
    /\ WF_vars(Acknowledge)
    /\ \A k \in 1..MaxUnits :
          /\ WF_vars(UnitSave(k))
          /\ WF_vars(BatchWritePut(k))
          /\ WF_vars(UnitSettled(k))
          /\ \/ <>[](calls[k].status # "running")
             \/ []<><<WriteAccepted(k)>>_vars

----------------------------------------------------------------------------
(* Claims about redelivery after a failed write (SpecConsume) *)

\* every record of the work unit is in the table under the unit's facility
Persisted(body) ==
    \A i \in DOMAIN body.value.batch.Inmates.items :
        \E e \in store :
            /\ e.rawData = body.value.batch.Inmates.items[i]
            /\ e.GSI1PK = getFacilityGSIKeys(body.value.facilityId,
                                             e.recordDate).GSI1PK

\* C34: every structurally valid work unit in the queue is eventually
\* persisted, the queue delivering again the messages of an invocation that
\* reported failure and storage failures being transient.
C34_ValidUnitEventuallyPersisted ==
    \A b \in ValidBodies : (b \in Range(queue)) ~> Persisted(b)

\* the same claim as a condition on the end of an invocation: a valid record
\* whose write was rejected is not among the records deleted from the queue
C34_FailedUnitLeftForRedelivery ==
    Ended =>
        \A k \in ValidUnits : inv.units[k] = "rejected" => k \notin inv.deleted

\* the write of a valid work unit was rejected and the invocation returned:
\* the unit's message is deleted from the queue and the table does not hold
\* the unit
C34_Witness ==
    /\ Ended /\ inv.outcome = "returned"
    /\ \E k \in ValidUnits :
          /\ inv.units[k] = "rejected"
          /\ calls[k].status = "rejected"
          /\ k \in inv.deleted
          /\ ~Persisted(inv.records[k])

----------------------------------------------------------------------------
(* Claims about batchSaveInmates against saveInmate (SpecStore) *)

\* the values the clock takes
ClockValues == [ms : 0..MaxClock, day : 0..MaxClock]

\* the table saveInmate(facilityId, inmate) leaves when it is called on
\* `table` at clock value t and its PutCommand is applied
AfterSaveInmate(table, facilityId, inmate, t) ==
    DynamoPut(table, DynamoRecord(facilityId, inmate, t))

Stripped(table) == {StripUpdated(e) : e \in table}

\* the first write call of the table's life was batchSaveInmates with one
\* record, and it has returned without error
SingleRecordCallReturned ==
    /\ ops = 1
    /\ calls[0].status = "fulfilled"
    /\ Len(calls[0].inmates) = 1

\* C39: batchSaveInmates(facilityId, [r]) leaves the table as
\* saveInmate(facilityId, r) leaves it: the same PK, SK, GSI1PK, GSI1SK,
\* recordDate, totalBondAmount and rawData, lastUpdated aside.
C39_BatchOfOneAsSaveInmate ==
    SingleRecordCallReturned =>
        \E t \in ClockValues :
            Stripped(store) =
                Stripped(AfterSaveInmate({}, calls[0].facilityId,
                                         calls[0].inmates[1], t))

\* the same, for the calls whose BatchWriteItem returned no UnprocessedItems
C39_SameWhenNothingUnprocessed ==
    (SingleRecordCallReturned /\ calls[0].left = {}) =>
        \E t \in ClockValues :
            Stripped(store) =
                Stripped(AfterSaveInmate({}, calls[0].facilityId,
                                         calls[0].inmates[1], t))

\* batchSaveInmates returned for one record that DynamoDB left unprocessed:
\* the table is empty
C39_Witness ==
    /\ SingleRecordCallReturned
    /\ calls[0].left = {1}
    /\ store = {}

\* batchSaveInmates returned for one record, which is in the table
C39_WitnessWritten ==
    /\ SingleRecordCallReturned
    /\ calls[0].left = {}
    /\ Cardinality(store) = 1

\* record i of call c is in the table under its (identityKey, recordDate)
Present(c, i) ==
    \E e \in store, t \in ClockValues :
        LET item == DynamoRecord(calls[c].facilityId, calls[c].inmates[i], t)
        IN  e.PK = item.PK /\ e.SK = item.SK

\* C40: when batchSaveInmates(facilityId, records) returns without error,
\* every record of records is in the table under its key, also when a batch
\* write reported items as unprocessed.
C40_ReturnedMeansEveryRecordStored ==
    \A c \in CallIds :
        calls[c].status = "fulfilled" =>
            \A i \in DOMAIN calls[c].inmates : Present(c, i)

\* the same, for the records that no response listed in UnprocessedItems
C40_StoredUnlessReportedUnprocessed ==
    \A c \in CallIds :
        calls[c].status = "fulfilled" =>
            \A i \in DOMAIN calls[c].inmates \ calls[c].left : Present(c, i)

\* two records of one request share a key: the request is refused and the
\* call rejects, it does not return
C40_DuplicateKeysRejected ==
    \A c \in CallIds :
        (/\ calls[c].status # "idle"
         /\ Len(calls[c].inmates) \in 2..chunkSize
         /\ HasDuplicateKeys(PutRequests(calls[c].facilityId,
                                         calls[c].inmates, now)))
            => calls[c].status \in {"running", "rejected"}

\* batchSaveInmates returned for two records, the second of which DynamoDB
\* reported as unprocessed and is not in the table
C40_Witness ==
    /\ calls[0].status = "fulfilled"
    /\ Len(calls[0].inmates) = 2
    /\ calls[0].left = {2}
    /\ Present(0, 1) /\ ~Present(0, 2)

----------------------------------------------------------------------------
(* One invocation whose records are processed concurrently *)

\* a work unit of more than one group of 25
LongUnit == 26

\* bodies of the records: a long unit, two units that hold the same person
\* and day with other values, and a unit of another facility
LongBody == Body(Wake, InmateApiBatch(JsonArray(Roster(LongUnit))), 1)

ShortBodies ==
    {Body(Wake, InmateApiBatch(JsonArray(<<Doe1>>)), 2),
     Body(Wake, InmateApiBatch(JsonArray(<<Doe2, OBrien1>>)), 3),
     Body(Buncombe, InmateApiBatch(JsonArray(<<Doe2>>)), 1)}

\* an SQSEvent: 1..MaxUnits short units, or the long unit alone or next to
\* a short one
ConcurrentEvents ==
    UNION {[1..n -> ShortBodies] : n \in 1..MaxUnits}
        \cup {<<LongBody>>,
              <<LongBody, Body(Wake, InmateApiBatch(JsonArray(<<Doe1>>)), 2)>>}

NextConcurrent ==
    \/ \E e \in ConcurrentEvents : Invoke(e)
    \/ \E k \in 1..MaxUnits : UnitSave(k)
    \/ \E k \in 1..MaxUnits : BatchWriteSend(k)
    \/ \E k \in 1..MaxUnits : BatchWritePut(k)
    \/ \E k \in 1..MaxUnits : UnitSettled(k)
    \/ ProcessBatchEnds

SpecConcurrent == InitIngest /\ [][NextConcurrent]_vars

----------------------------------------------------------------------------
(* Claims about concurrent units (SpecConcurrent) *)

KeyOf(e) == <<e.PK, e.SK>>

\* the positions of the records of a settled call that its accepted batch
\* writes put into the table: the groups sent, without the group that was
\* rejected and without the items returned as unprocessed
WrittenPositions(call) ==
    LET accepted == IF call.status = "rejected"
                    THEN Len(call.sent) - 1 ELSE Len(call.sent)
    IN  UNION {call.sent[g][1]..call.sent[g][2] : g \in 1..accepted}
            \ call.left

\* the item unit k wrote for its record at position p
ItemOf(k, p) == DynamoRecord(calls[k].facilityId, calls[k].inmates[p], now)

KeysWrittenBy(k) == {KeyOf(ItemOf(k, p)) : p \in WrittenPositions(calls[k])}

\* every entry of the table is, field for field, the item that one unit
\* wrote for that key, and no key has two entries
EntriesUnmixed ==
    /\ \A e \in store :
          \E k \in ValidUnits : \E p \in WrittenPositions(calls[k]) :
              e = ItemOf(k, p)
    /\ \A e, f \in store : KeyOf(e) = KeyOf(f) => e = f

\* C31 as stated: when an invocation that handled several records
\* concurrently has ended, the keys in the table are those written by the
\* units that succeeded, and every entry is the item one unit wrote.
C31_AsStated ==
    Ended =>
        /\ {KeyOf(e) : e \in store} =
              UNION {KeysWrittenBy(k) :
                        k \in {j \in ValidUnits : inv.units[j] = "fulfilled"}}
        /\ EntriesUnmixed

\* C31 amended: the keys in the table are those written by the units that
\* succeeded together with those that a unit which failed wrote in the
\* groups before the one that failed; every entry is the item one unit
\* wrote.
C31_KeysOfAllWritesEntriesUnmixed ==
    Ended =>
        /\ {KeyOf(e) : e \in store} =
              UNION {KeysWrittenBy(k) : k \in ValidUnits}
        /\ EntriesUnmixed

\* two units wrote the same key with other values while their writes
\* interleaved with those of a long unit, which failed in its second group
C31_Witness ==
    /\ Ended
    /\ \E j, k \in ValidUnits :
          /\ j # k
          /\ inv.units[j] = "fulfilled" /\ inv.units[k] = "fulfilled"
          /\ KeysWrittenBy(j) \cap KeysWrittenBy(k) # {}
          /\ \E p \in WrittenPositions(calls[j]),
                q \in WrittenPositions(calls[k]) :
                /\ KeyOf(ItemOf(j, p)) = KeyOf(ItemOf(k, q))
                /\ ItemOf(j, p) # ItemOf(k, q)

\* a long unit failed in its second group after its first group was written
C31_WitnessFailedLate ==
    /\ Ended
    /\ \E k \in ValidUnits :
          /\ inv.units[k] = "rejected"
          /\ Len(calls[k].sent) = 2
          /\ KeysWrittenBy(k) # {}
    /\ \E k \in ValidUnits : inv.units[k] = "fulfilled"

----------------------------------------------------------------------------
(* The work units of two collection runs, one after the other *)

\* Run R1 completed before run R2 started.  Both collected John Doe's record
\* of one day: R1 as Doe1, R2 later as Doe2.
R1Units == {Body(Wake, InmateApiBatch(JsonArray(<<Doe1>>)), 1),
            Body(Wake, InmateApiBatch(JsonArray(<<OBrien1>>)), 2)}
R2Units == {Body(Wake, InmateApiBatch(JsonArray(<<Doe2>>)), 1)}

\* the sequences that hold each element of S once
Arrangements(S) ==
    {q \in [1..Cardinality(S) -> S] : \A i, j \in DOMAIN q : q[i] = q[j] => i = j}

\* The queue holds the units of both runs.  It is a standard SQS queue, which
\* does not keep the order of sending: the messages are listed in the order
\* in which it will deliver them.
InitTwoRuns ==
    /\ StoreInit /\ IngestIdle /\ ReadIdle /\ ProcIdle
    /\ run = None /\ source = None /\ cookieJar = <<>> /\ http = <<>>
    /\ queue \in Arrangements(R1Units \cup R2Units)

SpecTwoRuns == InitTwoRuns /\ [][NextConsume]_vars

----------------------------------------------------------------------------
(* Claims about the versions of two runs (SpecTwoRuns) *)

\* the writes of the record `raw` of facility Wake, as positions of `written`
WritesOfRaw(raw) == {k \in DOMAIN written : written[k].rawData = raw}

\* every unit of both runs was delivered and acknowledged, and the records
\* that both runs collected were written
BothRunsIngested ==
    /\ queue = <<>> /\ inv = None
    /\ WritesOfRaw(Doe1) # {} /\ WritesOfRaw(Doe2) # {}

DoeKey == KeyOf(DynamoRecord(Wake, Doe1, now))

\* C35 as stated: once the units of both runs are ingested the table holds
\* R2's version of the record both produced, whatever the order of delivery.
C35_AsStated ==
    BothRunsIngested =>
        \A e \in store : KeyOf(e) = DoeKey => e.rawData = Doe2

\* C35 amended: the table holds the version that was written last, which is
\* R2's when R1's units were ingested before R2's.
C35_LastIngestedVersionStays ==
    BothRunsIngested =>
        LET last == CHOOSE k \in WritesOfRaw(Doe1) \cup WritesOfRaw(Doe2) :
                        \A l \in WritesOfRaw(Doe1) \cup WritesOfRaw(Doe2) :
                            l <= k
        IN  /\ {e \in store : KeyOf(e) = DoeKey} = {written[last]}
            /\ (\A k \in WritesOfRaw(Doe1), l \in WritesOfRaw(Doe2) : k < l)
                  => \A e \in store : KeyOf(e) = DoeKey => e.rawData = Doe2

\* R1's unit was ingested before R2's and the table holds R2's version
C35_Witness ==
    /\ BothRunsIngested
    /\ \A k \in WritesOfRaw(Doe1), l \in WritesOfRaw(Doe2) : k < l
    /\ \E e \in store : KeyOf(e) = DoeKey /\ e.rawData = Doe2

\* R2's unit was delivered before R1's and the table holds R1's version
C35_WitnessStale ==
    /\ BothRunsIngested
    /\ \A k \in WritesOfRaw(Doe1), l \in WritesOfRaw(Doe2) : l < k
    /\ \E e \in store : KeyOf(e) = DoeKey /\ e.rawData = Doe1

----------------------------------------------------------------------------
(* Claims about the facility name of collected records (SpecProcess) *)

\* the partition keys under which batchSaveInmates stores a record of the
\* facility named facilityId: the prefix of PK and GSI1PK
PartitionOf(facilityId) ==
    [PK |-> KeyInmate(facilityId, <<>>, <<>>, <<>>, <<>>).PK,
     GSI1PK |-> getFacilityGSIKeys(facilityId, <<>>).GSI1PK]

\* C36: the work units of a run carry the canonical configured name of
\* their facility (FacilityConfig.name) whatever letter case the trigger
\* used, so that their records are stored in the partition that a query by
\* the canonical name reads.
C36_StoredUnderCanonicalName ==
    \A n \in DOMAIN queue :
        LET config == getFacilityByName(mapping, queue[n].facilityId)
        IN  config # None =>
                /\ queue[n].facilityId = config.name
                /\ PartitionOf(queue[n].facilityId) = PartitionOf(config.name)

\* what holds of the code: a work unit carries the name as the trigger
\* spelled it, which validation accepted by its lower-case form
C36_StoredUnderNameAsTriggered ==
    \A n \in DOMAIN queue :
        \E i \in DOMAIN services :
            /\ queue[n].facilityId = services[i].run.facilityId
            /\ queue[n].facilityId \in EventFacilityIds \ {Undefined}
            /\ getFacilityByName(mapping, queue[n].facilityId) # None

\* a run triggered for "Buncombe" was accepted as facility buncombe and
\* enqueued a work unit for the partition FACILITY#Buncombe
C36_Witness ==
    \E n \in DOMAIN queue :
        /\ queue[n].facilityId = BuncombeCapital
        /\ getFacilityByName(mapping, queue[n].facilityId).name = Buncombe
        /\ PartitionOf(queue[n].facilityId) # PartitionOf(Buncombe)

----------------------------------------------------------------------------
(* Overlapping calls of FacilityApiLoader.loadApiIds in one process *)

MaxLoaders == 4

\* A call of loadApiIds starts and runs to its first await: it returns at
\* once when this.loaded is set, and otherwise sends the GetParameterCommand
\* of the first facility.  `sent` is the history of the facilities it asked
\* the parameter store for, as positions of BASE_FACILITY_MAPPING.
LoadCalled ==
    /\ Len(loaders) < MaxLoaders
    /\ loaders' = Append(loaders,
                     IF mapping.loaded \/ BASE_FACILITY_MAPPING = <<>>
                     THEN [pc |-> "returned", at |-> 0, sent |-> {}]
                     ELSE [pc |-> "reading", at |-> 1, sent |-> {1}])
    /\ mapping' = IF ~mapping.loaded /\ BASE_FACILITY_MAPPING = <<>>
                  THEN [mapping EXCEPT !.loaded = TRUE] ELSE mapping
    /\ UNCHANGED <<handler, services, handled, storeVars, collectVars, inv,
                   reply>>

\* The GetParameterCommand of call c settles: the mapping is updated, and
\* the call sends the command of the next facility or, after the last one,
\* sets this.loaded and returns (lines 100-128).
LoadSettled(c) ==
    /\ loaders[c].pc = "reading"
    /\ \E answer \in ApiIdAnswers :
        LET at == loaders[c].at
            m == LoadOne(mapping, BASE_FACILITY_MAPPING[at], answer)
        IN  IF at < Len(BASE_FACILITY_MAPPING)
            THEN /\ mapping' = m
                 /\ loaders' = [loaders EXCEPT ![c].at = at + 1,
                                               ![c].sent = @ \cup {at + 1}]
            ELSE /\ mapping' = [m EXCEPT !.loaded = TRUE]
                 /\ loaders' = [loaders EXCEPT ![c].pc = "returned"]
    /\ UNCHANGED <<handler, services, handled, storeVars, collectVars, inv,
                   reply>>

NextLoad ==
    \/ LoadCalled
    \/ \E c \in 1..MaxLoaders : c \in DOMAIN loaders /\ LoadSettled(c)

SpecLoad == InitStore /\ [][NextLoad]_vars

----------------------------------------------------------------------------
(* Claims about overlapping loads (SpecLoad) *)

\* the number of GetParameterCommands sent for facility j
ReadsOf(j) == Cardinality({c \in DOMAIN loaders : j \in loaders[c].sent})

\* C38: across any interleaving of overlapping loadApiIds calls in one
\* process, the parameter store is read at most once per facility.
C38_ReadOncePerFacility ==
    \A j \in DOMAIN BASE_FACILITY_MAPPING : ReadsOf(j) <= 1

\* what holds of the code: a call that starts after one call has finished
\* reads nothing, and the calls that started before that each read every
\* facility
C38_ReadOncePerCallStartedBeforeLoaded ==
    /\ \A c \in DOMAIN loaders :
          /\ loaders[c].sent # {} =>
                \A d \in 1..c : loaders[d].sent # {}
          /\ loaders[c].pc = "returned" =>
                loaders[c].sent \in {{}, DOMAIN BASE_FACILITY_MAPPING}
    /\ mapping.loaded =>
          \E c \in DOMAIN loaders :
              loaders[c].pc = "returned" /\ loaders[c].sent # {}
    /\ mapping.reads <= Len(BASE_FACILITY_MAPPING) * Len(loaders)

\* two calls overlapped and both read the parameter of buncombe; a third,
\* started after the first had finished, read nothing
C38_Witness ==
    /\ Len(loaders) = 3
    /\ loaders[1].sent = {1} /\ loaders[2].sent = {1}
    /\ loaders[3].sent = {}
    /\ mapping.reads = 2
    /\ \A c \in DOMAIN loaders : loaders[c].pc = "returned"

=============================================================================
